---- MODULE Spec2Model ----
(***************************************************************************)
(* Model of the task-analysis pipeline of scrapinator:                     *)
(*   src/utils/json_utils.py   extract_json_from_text,                      *)
(*                             normalize_optional_fields                    *)
(*   src/models/task.py        Task (pydantic model)                        *)
(*   src/exceptions.py         the TaskAnalysisError taxonomy               *)
(*   src/analyzer.py           WebTaskAnalyzer and its tenacity retry loop  *)
(*                                                                         *)
(* Texts are sequences of tokens, JSON values are tagged records, error    *)
(* messages are sequences of words; seconds are integers.                  *)
(***************************************************************************)
EXTENDS Integers, Sequences, FiniteSets, TLC

(***************************************************************************)
(* Bounds of the model.                                                    *)
(***************************************************************************)
\* largest max_retries an analyzer is configured with
MaxRetriesBound == 3

\* the retry_delay values an analyzer is configured with, in seconds
RetryDelays == {0, 1, 40, 70}

(***************************************************************************)
(* JSON values.  Every value is a record of the same shape:                *)
(*   t  the Python type: "none", "str", "int", "list", "dict"              *)
(*   s  the text of a str, the digits of an int                            *)
(*   l  the items of a list                                                *)
(*   d  the mapping of a dict, a function from key to value                *)
(***************************************************************************)
JNone == [t |-> "none", s |-> "", l |-> <<>>, d |-> <<>>]

JStr(s) == [t |-> "str", s |-> s, l |-> <<>>, d |-> <<>>]

JInt(s) == [t |-> "int", s |-> s, l |-> <<>>, d |-> <<>>]

JList(l) == [t |-> "list", s |-> "", l |-> l, d |-> <<>>]

JDict(d) == [t |-> "dict", s |-> "", l |-> <<>>, d |-> d]

\* the dict with no key
EmptyDict == [k \in {} |-> JNone]

\* d[key] = value, as the dict assignment of Python
DictSet(d, key, value) ==
    [k \in (DOMAIN d) \cup {key} |-> IF k = key THEN value ELSE d[k]]

(***************************************************************************)
(* Tokens of a text.  A text is a sequence of tokens; white space is not   *)
(* represented, so str.strip() and the white space json.loads skips have   *)
(* nothing to remove.                                                      *)
(*   punct  one of { } [ ] , :                                             *)
(*   str    a JSON string literal, v its content                           *)
(*   lit    the literal null, or a number                                  *)
(*   prose  a word of free text without braces                             *)
(***************************************************************************)
P(v) == [k |-> "punct", v |-> v]

S(v) == [k |-> "str", v |-> v]

N(v) == [k |-> "lit", v |-> v]

W(v) == [k |-> "prose", v |-> v]

LBRACE == P("{")

RBRACE == P("}")

LBRACK == P("[")

RBRACK == P("]")

COMMA == P(",")

COLON == P(":")

IsBrace(tok) == tok = LBRACE \/ tok = RBRACE

\* text[from:to], 1-based and inclusive
Slice(text, from, to) == SubSeq(text, from, to)

(***************************************************************************)
(* json.loads on a token sequence: a recursive-descent parser.  A parse    *)
(* step yields [ok, val, next], next being the index after the value.      *)
(***************************************************************************)
ParseFail == [ok |-> FALSE, val |-> JNone, next |-> 0]

ParseOk(val, next) == [ok |-> TRUE, val |-> val, next |-> next]

RECURSIVE ParseValue(_, _)
RECURSIVE ParseElems(_, _, _)
RECURSIVE ParseMembers(_, _, _)

ParseValue(text, i) ==
    IF i > Len(text) THEN ParseFail
    ELSE LET tok == text[i] IN
         CASE tok.k = "str" -> ParseOk(JStr(tok.v), i + 1)
           [] tok.k = "lit" ->
                ParseOk(IF tok.v = "null" THEN JNone ELSE JInt(tok.v), i + 1)
           [] tok = LBRACK ->
                IF i + 1 <= Len(text) /\ text[i + 1] = RBRACK
                THEN ParseOk(JList(<<>>), i + 2)
                ELSE ParseElems(text, i + 1, <<>>)
           [] tok = LBRACE ->
                IF i + 1 <= Len(text) /\ text[i + 1] = RBRACE
                THEN ParseOk(JDict(EmptyDict), i + 2)
                ELSE ParseMembers(text, i + 1, EmptyDict)
           [] OTHER -> ParseFail

\* the items of an array after "[" or ",": value ("," value)* "]"
ParseElems(text, i, acc) ==
    LET r == ParseValue(text, i) IN
    IF ~r.ok \/ r.next > Len(text) THEN ParseFail
    ELSE IF text[r.next] = COMMA
         THEN ParseElems(text, r.next + 1, Append(acc, r.val))
         ELSE IF text[r.next] = RBRACK
              THEN ParseOk(JList(Append(acc, r.val)), r.next + 1)
              ELSE ParseFail

\* the members of an object after "{" or ",": string ":" value, a repeated
\* key keeps its last value
ParseMembers(text, i, acc) ==
    IF i + 1 > Len(text) \/ text[i].k # "str" \/ text[i + 1] # COLON
    THEN ParseFail
    ELSE LET r == ParseValue(text, i + 2) IN
         IF ~r.ok \/ r.next > Len(text) THEN ParseFail
         ELSE IF text[r.next] = COMMA
              THEN ParseMembers(text, r.next + 1, DictSet(acc, text[i].v, r.val))
              ELSE IF text[r.next] = RBRACE
                   THEN ParseOk(JDict(DictSet(acc, text[i].v, r.val)), r.next + 1)
                   ELSE ParseFail

\* json.loads(text): the whole text is one value, else JSONDecodeError
json_loads(text) ==
    LET r == ParseValue(text, 1) IN
    IF r.ok /\ r.next = Len(text) + 1 THEN r ELSE ParseFail

\* json.loads succeeded and isinstance(json_data, dict)
LoadsDict(text) ==
    LET r == json_loads(text) IN r.ok /\ r.val.t = "dict"

(***************************************************************************)
(* extract_json_from_text (src/utils/json_utils.py).  The result is        *)
(* [found, data]: found = FALSE is the None of the code.                   *)
(***************************************************************************)
NoJson == [found |-> FALSE, data |-> EmptyDict]

FoundJson(data) == [found |-> TRUE, data |-> data]

\* the first index >= i of a brace token, Len(text) + 1 when there is none:
\* what [^{}]* leaves unconsumed
RECURSIVE SkipNonBrace(_, _)
SkipNonBrace(text, i) ==
    IF i > Len(text) \/ IsBrace(text[i]) THEN i ELSE SkipNonBrace(text, i + 1)

\* the tail (?:\{[^{}]*\}[^{}]*)*\} of json_pattern, j being the index of the
\* next brace: the index of the closing brace of the match, 0 for no match
RECURSIVE MatchGroups(_, _)
MatchGroups(text, j) ==
    IF j > Len(text) THEN 0
    ELSE IF text[j] = RBRACE THEN j
         ELSE LET k == SkipNonBrace(text, j + 1) IN
              IF k > Len(text) \/ text[k] # RBRACE THEN 0
              ELSE MatchGroups(text, SkipNonBrace(text, k + 1))

\* json_pattern matched at index i: the index of the last token of the match,
\* 0 when the pattern does not match there
MatchEnd(text, i) ==
    IF text[i] # LBRACE THEN 0 ELSE MatchGroups(text, SkipNonBrace(text, i + 1))

\* json_pattern.findall(text): the non-overlapping matches, left to right
RECURSIVE FindAll(_, _)
FindAll(text, i) ==
    IF i > Len(text) THEN <<>>
    ELSE LET e == MatchEnd(text, i) IN
         IF e > 0 THEN <<Slice(text, i, e)>> \o FindAll(text, e + 1)
         ELSE FindAll(text, i + 1)

\* the loop over matches: the first one that json.loads turns into a dict
RECURSIVE FirstDictMatch(_, _)
FirstDictMatch(matches, i) ==
    IF i > Len(matches) THEN NoJson
    ELSE IF LoadsDict(matches[i]) THEN FoundJson(json_loads(matches[i]).val.d)
         ELSE FirstDictMatch(matches, i + 1)

\* text.find("{") + 1: the index of the first "{", 0 when there is none
RECURSIVE FindFirst(_, _, _)
FindFirst(text, tok, i) ==
    IF i > Len(text) THEN 0
    ELSE IF text[i] = tok THEN i ELSE FindFirst(text, tok, i + 1)

\* text.rfind("}") + 1: the index of the last "}", 0 when there is none
RECURSIVE FindLast(_, _, _)
FindLast(text, tok, i) ==
    IF i < 1 THEN 0
    ELSE IF text[i] = tok THEN i ELSE FindLast(text, tok, i - 1)

\* Strategy 3: the text between the first "{" and the last "}"
BracketSearch(text) ==
    LET start_idx == FindFirst(text, LBRACE, 1) - 1
        end_idx == FindLast(text, RBRACE, Len(text))
    IN  IF start_idx # -1 /\ end_idx > 0 /\ start_idx < end_idx
           /\ LoadsDict(Slice(text, start_idx + 1, end_idx))
        THEN FoundJson(json_loads(Slice(text, start_idx + 1, end_idx)).val.d)
        ELSE NoJson

extract_json_from_text(text) ==
    IF text = <<>> THEN NoJson
    ELSE IF LoadsDict(text) THEN FoundJson(json_loads(text).val.d)
    ELSE LET byRegex == FirstDictMatch(FindAll(text, 1), 1) IN
         IF byRegex.found THEN byRegex ELSE BracketSearch(text)

(***************************************************************************)
(* normalize_optional_fields (src/utils/json_utils.py)                     *)
(***************************************************************************)
\* a membership test that forgets the empty list: value in [None, "null",
\* "None"]
IsNullEncoding_without_empty_list(value) ==
    \/ value = JNone
    \/ value = JStr("null")
    \/ value = JStr("None")

\* value in [None, "null", "None", []]
IsNullEncoding(value) ==
    \/ value = JNone
    \/ value = JStr("null")
    \/ value = JStr("None")
    \/ value = JList(<<>>)

\* a normaliser that takes the empty list for the canonical absent value
\* of a None, "null" or "None" and None for that of an empty list
RECURSIVE normalize_optional_fields_swapping(_, _)
normalize_optional_fields_swapping(data, fields) ==
    IF fields = <<>> THEN data
    ELSE normalize_optional_fields_swapping(
             IF Head(fields) \in DOMAIN data /\ IsNullEncoding(data[Head(fields)])
             THEN DictSet(data, Head(fields),
                          IF data[Head(fields)] = JList(<<>>)
                          THEN JNone ELSE JList(<<>>))
             ELSE data,
             Tail(fields))

\* the loop over fields: the mapping as the loop leaves it
RECURSIVE normalize_optional_fields(_, _)
normalize_optional_fields(data, fields) ==
    IF fields = <<>> THEN data
    ELSE normalize_optional_fields(
             IF Head(fields) \in DOMAIN data /\ IsNullEncoding(data[Head(fields)])
             THEN DictSet(data, Head(fields), JNone)
             ELSE data,
             Tail(fields))

(***************************************************************************)
(* Error messages are sequences of words.  str.lower() maps a word to its  *)
(* lower-case form; "phrase in text" is a search for a contiguous run.     *)
(***************************************************************************)
Lower(word) ==
    CASE word = "Rate" -> "rate"
      [] word = "Limit" -> "limit"
      [] word = "Too" -> "too"
      [] word = "Many" -> "many"
      [] word = "Requests" -> "requests"
      [] word = "Context" -> "context"
      [] word = "Token" -> "token"
      [] word = "LLM" -> "llm"
      [] word = "API" -> "api"
      [] word = "Expecting" -> "expecting"
      [] word = "Task" -> "task"
      [] OTHER -> word

lower(msg) == [i \in 1..Len(msg) |-> Lower(msg[i])]

\* phrase in msg
Contains(msg, phrase) ==
    \E i \in 1..(Len(msg) - Len(phrase) + 1) :
        SubSeq(msg, i, i + Len(phrase) - 1) = phrase

\* "rate limit" in error_msg or "too many requests" in error_msg
HasRateLimitPhrase(msg) ==
    \/ Contains(lower(msg), <<"rate", "limit">>)
    \/ Contains(lower(msg), <<"too", "many", "requests">>)

\* "context length" in error_msg or "token limit" in error_msg
HasContextLengthPhrase(msg) ==
    \/ Contains(lower(msg), <<"context", "length">>)
    \/ Contains(lower(msg), <<"token", "limit">>)

(***************************************************************************)
(* Exceptions.  An exception is a record                                   *)
(*   type            its class                                             *)
(*   msg             str(exception)                                        *)
(*   field           ValidationError.field as [name, index]: "objectives"  *)
(*                   is ["objectives", -1], "objectives[1]" is             *)
(*                   ["objectives", 1]; NoField for None and elsewhere     *)
(*   original_error  LLMCommunicationError.original_error: the type, msg   *)
(*                   and attempt of the wrapped exception, or NoOriginal   *)
(*   retry_count     the retry_count attribute                             *)
(*   details         details["retry_count"]                                *)
(*   at              the attempt in which the object was created           *)
(***************************************************************************)
NoOriginal == [type |-> "None", msg |-> <<>>, at |-> 0]

Original(e) == [type |-> e.type, msg |-> e.msg, at |-> e.at]

NoField == [name |-> "", index |-> -1]

Field(name) == [name |-> name, index |-> -1]

FieldItem(name, i) == [name |-> name, index |-> i]

MkException(type, msg, at) ==
    [type |-> type, msg |-> msg, field |-> NoField, original_error |-> NoOriginal,
     retry_count |-> 0, details |-> [retry_count |-> 0], at |-> at]

\* the value that stands for "no exception"
NoException == MkException("None", <<>>, 0)

\* the classes of src/exceptions.py
TaskAnalysisErrors ==
    {"TaskAnalysisError", "InvalidResponseFormatError", "ValidationError",
     "ContextLengthExceededError", "LLMCommunicationError", "RateLimitError"}

\* the classes a class derives from, itself included
Bases(type) ==
    CASE type = "CancelledError" -> {"CancelledError", "BaseException"}
      [] type = "Exception" -> {"Exception", "BaseException"}
      [] type = "ValueError" -> {"ValueError", "Exception", "BaseException"}
      [] type = "JSONDecodeError" ->
            {"JSONDecodeError", "ValueError", "Exception", "BaseException"}
      [] type = "PydanticValidationError" ->
            {"PydanticValidationError", "ValueError", "Exception", "BaseException"}
      [] type = "TimeoutError" ->
            {"TimeoutError", "OSError", "Exception", "BaseException"}
      [] type = "RateLimitError" ->
            {"RateLimitError", "LLMCommunicationError", "TaskAnalysisError",
             "Exception", "BaseException"}
      [] type \in TaskAnalysisErrors ->
            {type, "TaskAnalysisError", "Exception", "BaseException"}
      [] OTHER -> {type, "BaseException"}

\* isinstance(e, A | B | ...)
isinstance(e, classes) == Bases(e.type) \cap classes # {}

InvalidResponseFormatError(msg, at) ==
    MkException("InvalidResponseFormatError", msg, at)

ValidationError(msg, field, at) ==
    [MkException("ValidationError", msg, at) EXCEPT !.field = field]

ContextLengthExceededError(msg, at) ==
    MkException("ContextLengthExceededError", msg, at)

\* details = {"retry_count": retry_count}; self.retry_count = retry_count
LLMCommunicationError(msg, original_error, retry_count, at) ==
    [MkException("LLMCommunicationError", msg, at) EXCEPT
        !.original_error = original_error,
        !.retry_count = retry_count,
        !.details = [retry_count |-> retry_count]]

\* super().__init__(message, retry_count=retry_count): no original_error
RateLimitError(msg, retry_count, at) ==
    [LLMCommunicationError(msg, NoOriginal, retry_count, at) EXCEPT
        !.type = "RateLimitError"]

(***************************************************************************)
(* Task (src/models/task.py): a pydantic model with validate_assignment    *)
(* and extra="forbid".  A Task is a record of JSON values.                 *)
(***************************************************************************)
TaskFields ==
    {"description", "objectives", "constraints", "success_criteria",
     "data_to_extract", "actions_to_perform", "context"}

\* List[str]
IsListOfStr(value) ==
    value.t = "list" /\ \A i \in 1..Len(value.l) : value.l[i].t = "str"

\* Optional[List[str]]
IsOptionalListOfStr(value) == value = JNone \/ IsListOfStr(value)

\* the field declarations: types, min_length=1, the invariants of a Task
TaskInvariant(task) ==
    /\ task.description.t = "str"
    /\ IsListOfStr(task.objectives) /\ Len(task.objectives.l) >= 1
    /\ IsListOfStr(task.constraints)
    /\ IsListOfStr(task.success_criteria) /\ Len(task.success_criteria.l) >= 1
    /\ IsOptionalListOfStr(task.data_to_extract)
    /\ IsOptionalListOfStr(task.actions_to_perform)
    /\ task.context.t = "dict"

\* the value a field takes when the keyword is not given
FieldDefault(field) ==
    CASE field = "constraints" -> JList(<<>>)
      [] field = "context" -> JDict(EmptyDict)
      [] OTHER -> JNone

\* the fields declared with ... (required)
RequiredFields == {"description", "objectives", "success_criteria"}

\* the model Task(**task_data) builds when validation passes
TaskOf(task_data) ==
    [f \in TaskFields |->
        IF f \in DOMAIN task_data THEN task_data[f] ELSE FieldDefault(f)]

\* Task(**task_data) passes pydantic validation: no extra keyword, every
\* required one given, every field of its declared type
TaskAccepts(task_data) ==
    /\ DOMAIN task_data \subseteq TaskFields
    /\ RequiredFields \subseteq DOMAIN task_data
    /\ TaskInvariant(TaskOf(task_data))

\* the value standing for "no Task"
NoTask == [f \in TaskFields |-> JNone]

\* pydantic_core.ValidationError, a ValueError
PydanticValidationError(at) ==
    MkException("PydanticValidationError",
                <<"validation", "error", "for", "Task">>, at)

(***************************************************************************)
(* WebTaskAnalyzer._validate_field_types and _parse_llm_response           *)
(***************************************************************************)
\* the index (from 0) of the first item that is not a str, -1 when all are
RECURSIVE FirstNonStr(_, _)
FirstNonStr(items, i) ==
    IF i > Len(items) THEN -1
    ELSE IF items[i].t # "str" THEN i - 1 ELSE FirstNonStr(items, i + 1)

\* bool(value) of Python
Truthy(value) ==
    CASE value.t = "none" -> FALSE
      [] value.t = "str" -> value.s # ""
      [] value.t = "int" -> value.s # "0"
      [] value.t = "list" -> value.l # <<>>
      [] OTHER -> DOMAIN value.d # {}

\* one turn of the loop over list_fields; NoException when the field passes
ListFieldError(data, field, at) ==
    IF field \in DOMAIN data /\ data[field].t # "list"
    THEN ValidationError(<<"Field", field, "must", "be", "a", "list">>,
                         Field(field), at)
    ELSE IF field \in DOMAIN data /\ Truthy(data[field])
            /\ FirstNonStr(data[field].l, 1) # -1
         THEN ValidationError(<<"Item", "in", "field", field, "must", "be",
                                "a", "string">>,
                              FieldItem(field, FirstNonStr(data[field].l, 1)), at)
         ELSE NoException

\* one turn of the loop over optional_list_fields
OptionalFieldError(data, field, at) ==
    IF field \in DOMAIN data /\ data[field] # JNone /\ data[field].t # "list"
    THEN ValidationError(<<"Field", field, "must", "be", "a", "list", "or",
                           "null">>, Field(field), at)
    ELSE NoException

\* the first exception of a sequence of checks, NoException when all pass
RECURSIVE FirstError(_, _)
FirstError(errors, i) ==
    IF i > Len(errors) THEN NoException
    ELSE IF errors[i] # NoException THEN errors[i]
         ELSE FirstError(errors, i + 1)

\* a validator that does not look at description
_validate_field_types_without_description(data, at) ==
    FirstError(
      << ListFieldError(data, "objectives", at),
         ListFieldError(data, "success_criteria", at),
         ListFieldError(data, "constraints", at),
         OptionalFieldError(data, "data_to_extract", at),
         OptionalFieldError(data, "actions_to_perform", at) >>, 1)

\* the ValidationError __validate_field_types raises, NoException when none
_validate_field_types(data, at) ==
    FirstError(
      << IF "description" \notin DOMAIN data \/ data["description"].t # "str"
         THEN ValidationError(<<"Field", "description", "must", "be", "a",
                                "string">>, Field("description"), at)
         ELSE NoException,
         ListFieldError(data, "objectives", at),
         ListFieldError(data, "success_criteria", at),
         ListFieldError(data, "constraints", at),
         OptionalFieldError(data, "data_to_extract", at),
         OptionalFieldError(data, "actions_to_perform", at),
         IF "context" \in DOMAIN data /\ data["context"].t # "dict"
         THEN ValidationError(<<"Field", "context", "must", "be", "a",
                                "dictionary">>, Field("context"), at)
         ELSE NoException >>, 1)

\* required_fields, in the order of the list
required_fields == <<"description", "objectives", "success_criteria">>

\* [field for field in required_fields if field not in data]
missing_fields(data) ==
    SelectSeq(required_fields, LAMBDA f : f \notin DOMAIN data)

\* data.setdefault(key, value)
setdefault(data, key, value) ==
    IF key \in DOMAIN data THEN data ELSE DictSet(data, key, value)

\* the mapping after the defaults and the normalisation
Prepared(data) ==
    normalize_optional_fields(
        setdefault(setdefault(data, "constraints", JList(<<>>)),
                   "context", JDict(EmptyDict)),
        <<"data_to_extract", "actions_to_perform">>)

\* the check "must contain at least one item" on a required list
EmptyListError(data, field, at) ==
    IF ~Truthy(data[field]) \/ Len(data[field].l) = 0
    THEN ValidationError(<<"Field", field, "must", "contain", "at", "least",
                           "one", "item">>, Field(field), at)
    ELSE NoException

\* the value standing for "_parse_llm_response was not called"
NoParse == [error |-> NoException, data |-> EmptyDict]

\* _parse_llm_response(response): [error, data], error = NoException when
\* the mapping is returned
_parse_llm_response(reply, at) ==
    LET found == extract_json_from_text(reply)
        data == found.data
    IN  IF ~found.found \/ DOMAIN data = {}
        THEN [error |-> InvalidResponseFormatError(
                            <<"No", "valid", "JSON", "object", "found">>, at),
              data |-> EmptyDict]
        ELSE IF missing_fields(data) # <<>>
        THEN [error |-> ValidationError(
                            <<"Missing", "required", "fields">>
                                \o missing_fields(data),
                            Field(missing_fields(data)[1]), at),
              data |-> data]
        ELSE LET prepared == Prepared(data)
                 error == FirstError(
                            << _validate_field_types(prepared, at),
                               EmptyListError(prepared, "objectives", at),
                               EmptyListError(prepared, "success_criteria", at) >>,
                            1)
             IN  [error |-> error, data |-> prepared]

(***************************************************************************)
(* json.dumps: the text of a value.  The keys of a dict are written in the *)
(* order of KeyOrder.                                                      *)
(***************************************************************************)
KeyOrder ==
    <<"description", "objectives", "success_criteria", "data_to_extract",
      "actions_to_perform", "constraints", "context", "category", "extra",
      "site", "lang">>

RECURSIVE dumps(_)
RECURSIVE dumps_items(_, _)
RECURSIVE dumps_members(_, _)

dumps(value) ==
    CASE value.t = "none" -> <<N("null")>>
      [] value.t = "str" -> <<S(value.s)>>
      [] value.t = "int" -> <<N(value.s)>>
      [] value.t = "list" -> <<LBRACK>> \o dumps_items(value.l, 1) \o <<RBRACK>>
      [] OTHER ->
            <<LBRACE>>
            \o dumps_members(value.d,
                             SelectSeq(KeyOrder, LAMBDA k : k \in DOMAIN value.d))
            \o <<RBRACE>>

dumps_items(items, i) ==
    IF i > Len(items) THEN <<>>
    ELSE dumps(items[i])
         \o (IF i < Len(items) THEN <<COMMA>> ELSE <<>>)
         \o dumps_items(items, i + 1)

dumps_members(d, keys) ==
    IF keys = <<>> THEN <<>>
    ELSE <<S(Head(keys)), COLON>> \o dumps(d[Head(keys)])
         \o (IF Len(keys) > 1 THEN <<COMMA>> ELSE <<>>)
         \o dumps_members(d, Tail(keys))

(***************************************************************************)
(* The responses a completion returns and the exceptions it raises.        *)
(***************************************************************************)
\* the list of the given strings
StrList(strs) == JList([i \in 1..Len(strs) |-> JStr(strs[i])])

\* the minimal valid payload (test_analyze_task_minimal_response)
MinimalPayload ==
    [k \in {"description", "objectives", "success_criteria"} |->
        CASE k = "description" -> JStr("Simple task")
          [] k = "objectives" -> StrList(<<"Do something">>)
          [] OTHER -> StrList(<<"Task completed">>)]

\* a payload with every field, the optional ones in a null encoding
\* (test__parse_llm_response_null_handling)
FullPayload ==
    [k \in TaskFields |->
        CASE k = "description" -> JStr("Test")
          [] k = "objectives" -> StrList(<<"Obj1", "Obj2">>)
          [] k = "success_criteria" -> StrList(<<"Success">>)
          [] k = "constraints" -> StrList(<<"Limit1">>)
          [] k = "data_to_extract" -> JStr("null")
          [] k = "actions_to_perform" -> JList(<<>>)
          [] OTHER -> JDict([c \in {"category"} |-> JStr("electronics")])]

\* the payload without the key
Without(data, key) == [k \in (DOMAIN data) \ {key} |-> data[k]]

Responses ==
    { dumps(JDict(MinimalPayload)),
      <<W("Here"), W("is"), W("the"), W("analysis")>>
          \o dumps(JDict(FullPayload)) \o <<W("Done")>>,
      <<W("This"), W("is"), W("not"), W("JSON")>>,
      <<>>,
      dumps(JDict(EmptyDict)),
      dumps(JDict(Without(MinimalPayload, "success_criteria"))),
      dumps(JDict(DictSet(MinimalPayload, "objectives", JList(<<>>)))),
      dumps(JDict(DictSet(MinimalPayload, "description", JInt("123")))),
      dumps(JDict(DictSet(MinimalPayload, "extra", JInt("1")))),
      dumps(JDict(DictSet(MinimalPayload, "data_to_extract",
                          JList(<<JInt("1")>>)))) }

\* the task_description arguments of analyze_task
TaskDescriptions == {"Simple task"}

\* what a completion raises: [type, msg]
CompletionErrors ==
    { [type |-> "Exception", msg |-> <<"LLM", "API", "error">>],
      [type |-> "Exception", msg |-> <<"Rate", "limit", "exceeded">>],
      [type |-> "ValueError", msg |-> <<"Rate", "limit", "exceeded">>],
      [type |-> "ValueError", msg |-> <<"Too", "Many", "Requests">>],
      [type |-> "ValueError", msg |-> <<"context", "length", "exceeded">>],
      [type |-> "ValueError", msg |-> <<"Token", "limit", "reached">>],
      [type |-> "ValueError", msg |-> <<"some", "other", "error">>],
      [type |-> "JSONDecodeError", msg |-> <<"Expecting", "value">>],
      [type |-> "ValidationError", msg |-> <<"test">>] }

(***************************************************************************)
(* WebTaskAnalyzer (src/analyzer.py)                                       *)
(***************************************************************************)
MAX_RETRY_DELAY == 60

RATE_LIMIT_RETRY_MULTIPLIER == 5

DEFAULT_TIMEOUT == 30

\* the timeout argument: None, or a number of seconds
TimeoutNone == [set |-> FALSE, seconds |-> 0]

TimeoutOf(seconds) == [set |-> TRUE, seconds |-> seconds]

Timeouts == {TimeoutNone, TimeoutOf(0), TimeoutOf(DEFAULT_TIMEOUT)}

Min(a, b) == IF a <= b THEN a ELSE b

\* 2 ** n
RECURSIVE Pow2(_)
Pow2(n) == IF n <= 0 THEN 1 ELSE 2 * Pow2(n - 1)

VARIABLES
    timeout,         \* self.timeout
    max_retries,     \* self.max_retries
    retry_delay,     \* self.retry_delay
    pc,              \* per analyze_task call: "ready", "awaiting", "sleeping",
                     \* "returned", "raised"
    attempt_number,  \* per call: retry_state.attempt_number
    call_count,      \* per call: how often self.llm.complete was invoked
    completion,      \* per call: the completion call of the current attempt:
                     \* "none", "outstanding", "returned", "raised", "cancelled"
    outcome,         \* per call: the exception of retry_state.outcome
    attempts,        \* per call: the finished attempts, in order
    response,        \* per call: the text the last completion returned
    result,          \* per call: the Task returned to the caller
    raised,          \* per call: the exception raised to the caller
    cancelled,       \* per call: the caller has cancelled the call
    task_description \* per call: the task_description argument

\* the state of an analyzer and of its analyze_task calls
analyzer_vars ==
    <<timeout, max_retries, retry_delay, pc, attempt_number, call_count,
      completion, outcome, attempts, response, result, raised, cancelled,
      task_description>>

\* what a call reads and never writes: the configuration and its argument
config == <<timeout, max_retries, retry_delay, task_description>>

\* the calls in progress or finished
Calls == DOMAIN pc

\* if self.timeout:
TimeoutIsSet == timeout.set /\ timeout.seconds # 0

\* _is_retryable_error with ValidationError left out of the non-retryable
\* classes
_is_retryable_error_without_validation(exception) ==
    IF isinstance(exception,
                  {"InvalidResponseFormatError", "ContextLengthExceededError",
                   "JSONDecodeError"})
    THEN FALSE
    ELSE IF isinstance(exception, {"ValueError"})
            /\ HasContextLengthPhrase(exception.msg)
         THEN FALSE
         ELSE TRUE

_is_retryable_error(exception) ==
    IF isinstance(exception,
                  {"InvalidResponseFormatError", "ValidationError",
                   "ContextLengthExceededError", "JSONDecodeError"})
    THEN FALSE
    ELSE IF isinstance(exception, {"ValueError"})
            /\ HasContextLengthPhrase(exception.msg)
         THEN FALSE
         ELSE TRUE

\* after_attempt that leaves retry_count as it was constructed
after_attempt_no_update(exception, attempt) == exception

\* after_attempt: the exception of the outcome with its retry_count updated
after_attempt(exception, attempt) ==
    IF isinstance(exception, {"LLMCommunicationError", "RateLimitError"})
    THEN [exception EXCEPT !.retry_count = attempt]
    ELSE exception

\* the test of determine_wait for the extended delay
IsRateLimitWait(exception) ==
    isinstance(exception, {"ValueError"}) /\ HasRateLimitPhrase(exception.msg)

\* determine_wait without the MAX_RETRY_DELAY ceiling
determine_wait_uncapped(exception, attempt) ==
    IF IsRateLimitWait(exception)
    THEN retry_delay * Pow2(attempt - 1) * RATE_LIMIT_RETRY_MULTIPLIER
    ELSE retry_delay * Pow2(attempt - 1)

\* determine_wait with a constant delay instead of the exponential one
determine_wait_constant(exception, attempt) ==
    IF IsRateLimitWait(exception)
    THEN Min(retry_delay * RATE_LIMIT_RETRY_MULTIPLIER, MAX_RETRY_DELAY)
    ELSE Min(retry_delay, MAX_RETRY_DELAY)

determine_wait(exception, attempt) ==
    IF IsRateLimitWait(exception)
    THEN Min(retry_delay * Pow2(attempt - 1) * RATE_LIMIT_RETRY_MULTIPLIER,
             MAX_RETRY_DELAY)
    ELSE Min(retry_delay * Pow2(attempt - 1), MAX_RETRY_DELAY)

\* stop_after_attempt that allows one attempt too many
stop_after_attempt_off_by_one(attempt) == attempt > max_retries

\* stop_after_attempt(self.max_retries)
stop_after_attempt(attempt) == attempt >= max_retries

\* reraise=True: when the budget is exhausted tenacity raises the exception of
\* the last attempt instead of a RetryError
reraise == TRUE

\* except Exception: any other exception is wrapped
ExceptionHandler(e, at) ==
    LLMCommunicationError(<<"Failed", "to", "analyze", "task">>,
                          Original(e), 0, at)

\* a TimeoutError handled by the clause for Exception
TimeoutHandler_as_generic(e, at) == ExceptionHandler(e, at)

\* except TimeoutError
TimeoutHandler(e, at) ==
    LLMCommunicationError(<<"LLM", "request", "timed", "out">>,
                          Original(e), 0, at)

\* except json.JSONDecodeError
JSONDecodeHandler(e, at) ==
    InvalidResponseFormatError(
        <<"Could", "not", "parse", "LLM", "response", "as", "JSON">>, at)

\* except ValueError: a rate-limit or context-length text is converted, any
\* other ValueError is raised again as it is
ValueErrorHandler(e, at) ==
    IF HasRateLimitPhrase(e.msg)
    THEN RateLimitError(<<"Rate", "limit", "exceeded", "for", "LLM", "API">>,
                        0, at)
    ELSE IF HasContextLengthPhrase(e.msg)
         THEN ContextLengthExceededError(
                  <<"Prompt", "exceeds", "LLM", "context", "length", "limit">>,
                  at)
         ELSE e

\* the except clauses of _analyze_with_retry, in their order: the exception
\* that leaves the attempt when its body raised e
HandleAttemptError(e, at) ==
    IF isinstance(e, {"TimeoutError"}) THEN TimeoutHandler(e, at)
    ELSE IF isinstance(e, {"JSONDecodeError"}) THEN JSONDecodeHandler(e, at)
    ELSE IF isinstance(e, {"ValueError"}) THEN ValueErrorHandler(e, at)
    ELSE IF isinstance(e, {"InvalidResponseFormatError", "ValidationError",
                           "ContextLengthExceededError"})
    THEN e
    ELSE IF isinstance(e, {"Exception"}) THEN ExceptionHandler(e, at)
    ELSE e

\* the handler of tenacity.RetryError in analyze_task: the exception raised
\* to the caller when the retry loop gave up after the given attempt
HandleRetryError(last_exception, attempt) ==
    IF isinstance(last_exception, {"RateLimitError", "LLMCommunicationError"})
    THEN [last_exception EXCEPT !.retry_count = attempt]
    ELSE LLMCommunicationError(
             <<"Failed", "to", "analyze", "task", "after", "attempts">>,
             IF isinstance(last_exception, {"Exception"})
             THEN Original(last_exception) ELSE NoOriginal,
             attempt, attempt)

\* what the body of the try block does with a response: the exception it
\* raises, NoException when it returns the Task
BodyError(text, at) ==
    LET parsed == _parse_llm_response(text, at) IN
    IF parsed.error # NoException THEN parsed.error
    ELSE IF ~TaskAccepts(parsed.data) THEN PydanticValidationError(at)
         ELSE NoException

\* the Task the body returns for a response it accepts
BodyTask(text, at) == TaskOf(_parse_llm_response(text, at).data)

(***************************************************************************)
(* The retry loop of one analyze_task call: tenacity's AsyncRetrying       *)
(* around _analyze_with_retry, configured by _create_retry_decorator.      *)
(***************************************************************************)
\* the record kept of a finished attempt
\*   cause     what the completion did: "return", "raise", "timeout", "cancel"
\*   raw_type  the class of the exception the body of the attempt raised
\*   phrase    that exception's text holds a rate-limit phrase
\*   error     the class of the exception that left the attempt
\*   slept     a backoff wait followed the attempt
\*   wait      its length in seconds
AttemptRecord(cause, body_error, exc, slept, wait) ==
    [cause |-> cause, raw_type |-> body_error.type,
     phrase |-> HasRateLimitPhrase(body_error.msg), error |-> exc.type,
     slept |-> slept, wait |-> wait]

\* what becomes of an attempt with the given number whose try block raised
\* body_error (NoException when it returned): the exception that leaves
\* the attempt, tenacity's decision on it and the wait before the next one
AttemptOutcome(at, body_error) ==
    LET exc == IF body_error = NoException THEN NoException
               ELSE HandleAttemptError(body_error, at)
        retry == exc # NoException /\ _is_retryable_error(exc)
        marked == IF retry THEN after_attempt(exc, at) ELSE exc
        next == CASE exc = NoException -> "returned"
                  [] exc # NoException /\ ~retry -> "raised"
                  [] retry /\ stop_after_attempt(at) -> "raised"
                  [] OTHER -> "sleeping"
    IN  [exc |-> exc, marked |-> marked, next |-> next,
         wait |-> IF next = "sleeping" THEN determine_wait(marked, at) ELSE 0,
         raised |-> IF next # "raised" THEN NoException
                    ELSE IF ~retry \/ reraise THEN marked
                         ELSE HandleRetryError(marked, at)]

\* the end of an attempt and tenacity's decision on it: body_error is what the
\* try block raised (NoException when it returned task)
EndAttempt(c, cause, body_error, task, comp) ==
    \E o \in {AttemptOutcome(attempt_number[c], body_error)} :
        /\ completion' = [completion EXCEPT ![c] = comp]
        /\ pc' = [pc EXCEPT ![c] = o.next]
        /\ outcome' = [outcome EXCEPT ![c] = o.marked]
        /\ result' = [result EXCEPT ![c] =
                        IF o.next = "returned" THEN task ELSE @]
        /\ raised' = [raised EXCEPT ![c] =
                        IF o.next = "raised" THEN o.raised ELSE @]
        /\ attempt_number' = [attempt_number EXCEPT ![c] =
                                IF o.next = "sleeping" THEN @ + 1 ELSE @]
        /\ attempts' = [attempts EXCEPT ![c] =
                          Append(@, AttemptRecord(cause, body_error, o.exc,
                                                  o.next = "sleeping", o.wait))]

\* an attempt that is also started after a successful one
Attempt_after_success(c) ==
    /\ pc[c] \in {"ready", "returned"}
    /\ pc' = [pc EXCEPT ![c] = "awaiting"]
    /\ call_count' = [call_count EXCEPT ![c] = @ + 1]
    /\ completion' = [completion EXCEPT ![c] = "outstanding"]
    /\ UNCHANGED <<config, attempt_number, outcome, attempts, response, result,
                   raised, cancelled>>

\* an attempt counted on the analyzer instead of in the call: every call in
\* progress sees it
Attempt_shared_counter(c) ==
    /\ pc[c] = "ready"
    /\ pc' = [pc EXCEPT ![c] = "awaiting"]
    /\ call_count' = [d \in Calls |-> call_count[d] + 1]
    /\ completion' = [completion EXCEPT ![c] = "outstanding"]
    /\ UNCHANGED <<config, attempt_number, outcome, attempts, response, result,
                   raised, cancelled>>

\* tenacity starts an attempt: _analyze_with_retry calls self.llm.complete
Attempt(c) ==
    /\ pc[c] = "ready"
    /\ pc' = [pc EXCEPT ![c] = "awaiting"]
    /\ call_count' = [call_count EXCEPT ![c] = @ + 1]
    /\ completion' = [completion EXCEPT ![c] = "outstanding"]
    /\ UNCHANGED <<config, attempt_number, outcome, attempts, response, result,
                   raised, cancelled>>

\* the completion returns text: the response is parsed, validated and made a
\* Task
CompletionReturns(c, reply) ==
    /\ pc[c] = "awaiting"
    /\ response' = [response EXCEPT ![c] = reply]
    /\ \E body_error \in {BodyError(reply, attempt_number[c])} :
          \E task \in {IF body_error = NoException
                       THEN BodyTask(reply, attempt_number[c]) ELSE NoTask} :
              EndAttempt(c, "return", body_error, task, "returned")
    /\ UNCHANGED <<config, call_count, cancelled>>

\* the completion raises an exception
CompletionRaises(c, err) ==
    /\ pc[c] = "awaiting"
    /\ EndAttempt(c, "raise", MkException(err.type, err.msg, attempt_number[c]),
                  NoTask, "raised")
    /\ UNCHANGED <<config, call_count, response, cancelled>>

\* asyncio.wait_for gives up on the completion: it cancels it and raises
\* TimeoutError
TimeoutExpires(c) ==
    /\ pc[c] = "awaiting"
    /\ TimeoutIsSet
    /\ EndAttempt(c, "timeout", MkException("TimeoutError", <<>>, attempt_number[c]),
                  NoTask, "cancelled")
    /\ UNCHANGED <<config, call_count, response, cancelled>>

\* the caller cancels the call while the completion is outstanding:
\* CancelledError is raised at the await and leaves the attempt
CancelCompletion(c) ==
    /\ pc[c] = "awaiting"
    /\ ~cancelled[c]
    /\ cancelled' = [cancelled EXCEPT ![c] = TRUE]
    /\ EndAttempt(c, "cancel",
                  MkException("CancelledError", <<>>, attempt_number[c]),
                  NoTask, "cancelled")
    /\ UNCHANGED <<config, call_count, response>>

\* the caller cancels the call during a backoff wait: CancelledError is raised
\* by the sleep, outside any attempt
CancelSleep(c) ==
    /\ pc[c] = "sleeping"
    /\ ~cancelled[c]
    /\ cancelled' = [cancelled EXCEPT ![c] = TRUE]
    /\ pc' = [pc EXCEPT ![c] = "raised"]
    /\ raised' = [raised EXCEPT ![c] =
                    MkException("CancelledError", <<>>, attempt_number[c])]
    /\ UNCHANGED <<config, attempt_number, call_count, completion, outcome,
                   attempts, response, result>>

\* the backoff wait is over
Wake(c) ==
    /\ pc[c] = "sleeping"
    /\ pc' = [pc EXCEPT ![c] = "ready"]
    /\ UNCHANGED <<config, attempt_number, call_count, completion, outcome,
                   attempts, response, result, raised, cancelled>>

\* the state of a call when analyze_task is entered
InitCalls(ids) ==
    /\ pc = [c \in ids |-> "ready"]
    /\ attempt_number = [c \in ids |-> 1]
    /\ call_count = [c \in ids |-> 0]
    /\ completion = [c \in ids |-> "none"]
    /\ outcome = [c \in ids |-> NoException]
    /\ attempts = [c \in ids |-> <<>>]
    /\ response = [c \in ids |-> <<>>]
    /\ result = [c \in ids |-> NoTask]
    /\ raised = [c \in ids |-> NoException]
    /\ cancelled = [c \in ids |-> FALSE]
    /\ task_description \in [ids -> TaskDescriptions]

\* WebTaskAnalyzer.__init__
InitAnalyzer ==
    /\ timeout \in Timeouts
    /\ max_retries \in -1..MaxRetriesBound
    /\ retry_delay \in RetryDelays

(***************************************************************************)
(* The utilities and the Task model used on their own, outside a call of   *)
(* analyze_task.                                                           *)
(***************************************************************************)
VARIABLES
    step,            \* how far a use of the utilities or of Task has got
    text,            \* the text given to extract_json_from_text
    json_data,       \* what extract_json_from_text returned
    objects,         \* the dict objects in memory, by identity
    data,            \* the identity of the dict given to normalize_optional_fields
    fields,          \* the list of field names given to it
    returned,        \* the identity of the dict it returned; what the
                     \* queries of a Task returned
    payload,         \* the Task payload of a round trip
    task_data,       \* what _parse_llm_response returned or raised
    task,            \* a Task object
    task_error,      \* what the last operation on the Task raised
    history,         \* per call, where calls run side by side: what its
                     \* completions did, in order
    pool,            \* a BrowserPool: its fields
    tasks            \* the coroutines that use the pool: where each one is
                     \* suspended and the browser_id it holds

\* the state of a direct use of the utilities and of the Task model
util_vars ==
    <<step, text, json_data, objects, data, fields, returned, payload,
      task_data, task, task_error>>

\* everything but the analyzer and its calls
others == <<util_vars, history, pool, tasks>>

vars == <<analyzer_vars, others>>

\* no utility is in use
UtilsIdle ==
    /\ step = "idle"
    /\ text = <<>>
    /\ json_data = NoJson
    /\ objects = <<>>
    /\ data = 0
    /\ fields = <<>>
    /\ returned = 0
    /\ payload = EmptyDict
    /\ task_data = NoParse
    /\ task = NoTask
    /\ task_error = NoException

Init ==
    /\ InitAnalyzer /\ InitCalls({"call"}) /\ UtilsIdle
    /\ history = <<>> /\ pool = <<>> /\ tasks = <<>>

Next ==
    \E c \in Calls :
        \/ Attempt(c) /\ UNCHANGED others
        \/ \E t \in Responses : CompletionReturns(c, t) /\ UNCHANGED others
        \/ \E err \in CompletionErrors :
              CompletionRaises(c, err) /\ UNCHANGED others
        \/ TimeoutExpires(c) /\ UNCHANGED others
        \/ CancelCompletion(c) /\ UNCHANGED others
        \/ CancelSleep(c) /\ UNCHANGED others
        \/ Wake(c) /\ UNCHANGED others

Spec == Init /\ [][Next]_vars

(***************************************************************************)
(* One call on an analyzer with a positive timeout, with the scheduling of *)
(* the event loop: a call that is ready runs (the coroutine is scheduled), *)
(* a backoff wait ends (asyncio.sleep of a finite time), and a completion  *)
(* that is outstanding is given up by asyncio.wait_for when the timeout    *)
(* expires, unless it returns or raises before.                            *)
(***************************************************************************)
InitLive == Init /\ TimeoutIsSet

SpecLive ==
    /\ InitLive
    /\ [][Next]_vars
    /\ WF_vars(Attempt("call") /\ UNCHANGED others)
    /\ WF_vars(Wake("call") /\ UNCHANGED others)
    /\ WF_vars(TimeoutExpires("call") /\ UNCHANGED others)

(***************************************************************************)
(* Two analyze_task calls side by side on one analyzer.  Each call is a    *)
(* coroutine with its own closure, its own retry decorator and its own     *)
(* tenacity RetryCallState; the event loop interleaves them at their       *)
(* awaits: the completion and the backoff sleep.                           *)
(***************************************************************************)
\* largest max_retries of the analyzer the two calls share
MaxConcurrentRetries == 2

ConcurrentResponses ==
    { dumps(JDict(MinimalPayload)),
      <<W("This"), W("is"), W("not"), W("JSON")>>,
      dumps(JDict(DictSet(MinimalPayload, "extra", JInt("1")))) }

ConcurrentErrors ==
    { [type |-> "Exception", msg |-> <<"LLM", "API", "error">>],
      [type |-> "ValueError", msg |-> <<"Rate", "limit", "exceeded">>],
      [type |-> "ValueError", msg |-> <<"context", "length", "exceeded">>] }

NoError == [type |-> "None", msg |-> <<>>]

\* the completion of call c did this: it is added to the call's history
Recorded(c, cause, reply, err) ==
    /\ history' = [history EXCEPT ![c] =
                     Append(@, [cause |-> cause, reply |-> reply, err |-> err])]
    /\ UNCHANGED <<util_vars, pool, tasks>>

InitConcurrent ==
    /\ timeout = TimeoutOf(DEFAULT_TIMEOUT)
    /\ max_retries \in 1..MaxConcurrentRetries
    /\ retry_delay \in {1, 40}
    /\ InitCalls({"first", "second"})
    /\ UtilsIdle
    /\ history = [c \in {"first", "second"} |-> <<>>]
    /\ pool = <<>> /\ tasks = <<>>

NextConcurrent ==
    \E c \in Calls :
        \/ Attempt(c) /\ UNCHANGED others
        \/ \E t \in ConcurrentResponses :
              CompletionReturns(c, t) /\ Recorded(c, "return", t, NoError)
        \/ \E err \in ConcurrentErrors :
              CompletionRaises(c, err) /\ Recorded(c, "raise", <<>>, err)
        \/ TimeoutExpires(c) /\ Recorded(c, "timeout", <<>>, NoError)
        \/ Wake(c) /\ UNCHANGED others

SpecConcurrent == InitConcurrent /\ [][NextConcurrent]_vars

(***************************************************************************)
(* The body of an attempt on its own: a response text goes through         *)
(* _parse_llm_response and the Task constructor.  The text is a payload    *)
(* written as JSON, alone or between two pieces of prose.                  *)
(***************************************************************************)
\* the keyword is not given
Omitted == [t |-> "omitted", s |-> "", l |-> <<>>, d |-> <<>>]

\* the mapping with the key set to the value, or without the key
Given(mapping, key, value) ==
    IF value = Omitted THEN Without(mapping, key) ELSE DictSet(mapping, key, value)

\* the payloads a response carries: each field omitted, well formed or
\* ill formed
Payloads ==
    LET DescriptionChoices == {Omitted, JStr("Simple task"), JInt("123")}
        RequiredListChoices ==
            {Omitted, StrList(<<"Do something">>), JList(<<>>)}
        DataToExtractChoices ==
            {Omitted, JNone, JStr("null"), JStr("None"), JList(<<>>),
             StrList(<<"price">>), JList(<<JInt("1")>>), JStr("text")}
        ActionsChoices ==
            {Omitted, JList(<<>>), StrList(<<"click", "submit">>)}
        ContextChoices ==
            {Omitted, JDict(EmptyDict),
             JDict([k \in {"category"} |-> JStr("electronics")]),
             JDict([k \in {"site"} |->
                      JDict([j \in {"lang"} |-> JStr("en")])])}
    IN  { Given(Given(Given(Given(Given(Given(EmptyDict,
              "description", d), "objectives", o), "success_criteria", sc),
              "data_to_extract", x), "actions_to_perform", a), "context", cx) :
            d \in DescriptionChoices, o \in RequiredListChoices,
            sc \in RequiredListChoices, x \in DataToExtractChoices,
            a \in ActionsChoices, cx \in ContextChoices }

\* the prose before and after the JSON text
Proses ==
    { [before |-> <<>>, after |-> <<>>],
      [before |-> <<W("Here"), W("is"), W("the"), W("analysis")>>,
       after |-> <<W("Done")>>] }

InitParse ==
    /\ step = "input"
    /\ payload \in Payloads
    /\ \E prose \in Proses :
          text = prose.before \o dumps(JDict(payload)) \o prose.after
    /\ json_data = NoJson
    /\ objects = <<>>
    /\ data = 0
    /\ fields = <<>>
    /\ returned = 0
    /\ task_data = NoParse
    /\ task = NoTask
    /\ task_error = NoException
    /\ history = <<>> /\ pool = <<>> /\ tasks = <<>>
    /\ timeout = TimeoutNone /\ max_retries = 1 /\ retry_delay = 1
    /\ InitCalls({})

\* task_data = self._parse_llm_response(response)
Parse ==
    /\ step = "input"
    /\ step' = "parsed"
    /\ json_data' = extract_json_from_text(text)
    /\ task_data' = _parse_llm_response(text, 1)
    /\ UNCHANGED <<analyzer_vars, text, objects, data, fields, returned,
                   payload, task, task_error, history,
                   pool, tasks>>

\* task = Task(**task_data)
Construct ==
    /\ step = "parsed"
    /\ task_data.error = NoException
    /\ step' = "built"
    /\ IF TaskAccepts(task_data.data)
       THEN task' = TaskOf(task_data.data) /\ task_error' = task_error
       ELSE task' = task /\ task_error' = PydanticValidationError(1)
    /\ UNCHANGED <<analyzer_vars, text, json_data, objects, data, fields,
                   returned, payload, task_data, history,
                   pool, tasks>>

NextParse == Parse \/ Construct

SpecParse == InitParse /\ [][NextParse]_vars

(***************************************************************************)
(* normalize_optional_fields on its own.  The dict is an object in memory: *)
(* objects[i] is the mapping of the object with identity i.  The function  *)
(* is applied to a dict and then once more to the dict it returned.        *)
(***************************************************************************)
NormalizeKeys == <<"data_to_extract", "actions_to_perform", "constraints">>

\* the mappings given to the function
NormalizeMappings ==
    LET NormalizeValues ==
            {Omitted, JNone, JStr("null"), JStr("None"), JList(<<>>),
             StrList(<<"price">>), JStr(""), JInt("0")}
    IN  { Given(Given(Given(EmptyDict, NormalizeKeys[1], x),
                      NormalizeKeys[2], y), NormalizeKeys[3], z) :
            x \in NormalizeValues, y \in NormalizeValues,
            z \in NormalizeValues }

\* the field lists given to it: empty, one name, two names in both orders, a
\* repeated name, a name the mapping never has
FieldLists ==
    { <<>>, <<"data_to_extract">>,
      <<"data_to_extract", "actions_to_perform">>,
      <<"actions_to_perform", "data_to_extract">>,
      <<"data_to_extract", "data_to_extract">>,
      <<"actions_to_perform", "notes">> }

InitNormalize ==
    /\ step = "input"
    /\ payload \in NormalizeMappings
    /\ objects = <<payload>>
    /\ data = 1
    /\ fields \in FieldLists
    /\ returned = 0
    /\ text = <<>>
    /\ json_data = NoJson
    /\ task_data = NoParse
    /\ task = NoTask
    /\ task_error = NoException
    /\ history = <<>> /\ pool = <<>> /\ tasks = <<>>
    /\ timeout = TimeoutNone /\ max_retries = 1 /\ retry_delay = 1
    /\ InitCalls({})

\* a normaliser that works on a copy of the dict and returns the copy
NormalizeCall_on_copy(arg) ==
    /\ objects' = Append(objects, normalize_optional_fields(objects[arg], fields))
    /\ returned' = Len(objects) + 1

\* normalize_optional_fields(arg, fields): the object is changed in place
\* and its identity returned
NormalizeCall(arg) ==
    /\ objects' = [objects EXCEPT
                     ![arg] = normalize_optional_fields(objects[arg], fields)]
    /\ returned' = arg

\* result = normalize_optional_fields(data, fields)
Normalize ==
    /\ step = "input"
    /\ step' = "once"
    /\ NormalizeCall(data)
    /\ UNCHANGED <<analyzer_vars, text, json_data, data, fields, payload,
                   task_data, task, task_error, history,
                   pool, tasks>>

\* normalize_optional_fields(result, fields)
NormalizeAgain ==
    /\ step = "once"
    /\ step' = "twice"
    /\ NormalizeCall(returned)
    /\ UNCHANGED <<analyzer_vars, text, json_data, data, fields, payload,
                   task_data, task, task_error, history,
                   pool, tasks>>

NextNormalize == Normalize \/ NormalizeAgain

SpecNormalize == InitNormalize /\ [][NextNormalize]_vars

(***************************************************************************)
(* extract_json_from_text on its own.  The text is a JSON array, or two    *)
(* different JSON objects one after the other with or without prose        *)
(* before, between and after them; payload is the first of the two.        *)
(***************************************************************************)
\* the mapping with one key
One(key, value) == [k \in {key} |-> value]

\* objects without a nested object, with one, and with one two levels deep
ExtractObjects ==
    { EmptyDict,
      One("extra", JInt("1")),
      One("category", JStr("electronics")),
      One("context", JDict(One("category", JStr("electronics")))),
      One("context", JList(<<JDict(One("extra", JInt("1"))),
                             JDict(One("lang", JStr("en")))>>)),
      One("context", JDict(One("site", JDict(One("lang", JStr("en")))))) }

\* the items of the arrays
\* the arrays of at most two items
Arrays ==
    LET ArrayItems ==
            { JInt("1"), JStr("x"), JNone, JList(<<>>), JList(<<JInt("1")>>),
              JDict(EmptyDict), JDict(One("extra", JInt("1"))) }
    IN  {JList(<<>>)} \cup {JList(<<x>>) : x \in ArrayItems}
            \cup {JList(<<x, y>>) : x \in ArrayItems, y \in ArrayItems}

InitExtract ==
    /\ step = "input"
    /\ \/ /\ payload = EmptyDict
          /\ \E array \in Arrays : text = dumps(array)
       \/ /\ payload \in ExtractObjects
          /\ \E second \in ExtractObjects \ {payload} :
             \E before, between, after \in {<<>>, <<W("some"), W("text")>>} :
                text = before \o dumps(JDict(payload)) \o between
                           \o dumps(JDict(second)) \o after
    /\ json_data = NoJson
    /\ objects = <<>>
    /\ data = 0
    /\ fields = <<>>
    /\ returned = 0
    /\ task_data = NoParse
    /\ task = NoTask
    /\ task_error = NoException
    /\ history = <<>> /\ pool = <<>> /\ tasks = <<>>
    /\ timeout = TimeoutNone /\ max_retries = 1 /\ retry_delay = 1
    /\ InitCalls({})

\* result = extract_json_from_text(text)
Extract ==
    /\ step = "input"
    /\ step' = "extracted"
    /\ json_data' = extract_json_from_text(text)
    /\ UNCHANGED <<analyzer_vars, text, objects, data, fields, returned,
                   payload, task_data, task, task_error, history,
                   pool, tasks>>

NextExtract == Extract

SpecExtract == InitExtract /\ [][NextExtract]_vars

(***************************************************************************)
(* A Task object on its own: it is constructed from keywords, its fields   *)
(* are assigned (validate_assignment=True validates the new value) and the *)
(* lists it holds are changed in place, which no validator sees.           *)
(***************************************************************************)
\* the most items a list of the Task is grown to
MaxItems == 2

\* the keywords a Task is constructed from
TaskKeywords ==
    { MinimalPayload,
      DictSet(MinimalPayload, "objectives", JList(<<>>)),
      DictSet(MinimalPayload, "success_criteria", JList(<<>>)),
      Without(MinimalPayload, "objectives"),
      DictSet(MinimalPayload, "constraints", StrList(<<"Be quick">>)),
      DictSet(MinimalPayload, "objectives", StrList(<<"One", "Two", "Three">>)),
      DictSet(MinimalPayload, "data_to_extract", JList(<<>>)),
      DictSet(MinimalPayload, "data_to_extract", StrList(<<"price">>)),
      DictSet(MinimalPayload, "actions_to_perform", JList(<<>>)),
      DictSet(MinimalPayload, "actions_to_perform",
              StrList(<<"open", "fill", "submit">>)),
      DictSet(MinimalPayload, "actions_to_perform",
              StrList(<<"open", "fill", "submit", "close">>)) }

\* the values assigned to a list field
AssignedValues ==
    {JList(<<>>), StrList(<<"Done">>), JStr("not a list"), JNone,
     JList(<<JInt("1")>>), JDict(EmptyDict)}

\* the fields declared List[str]
ListFields == {"objectives", "success_criteria", "constraints"}

InitTask ==
    /\ step = "input"
    /\ payload \in TaskKeywords
    /\ task = NoTask
    /\ task_error = NoException
    /\ text = <<>>
    /\ json_data = NoJson
    /\ objects = <<>>
    /\ data = 0
    /\ fields = <<>>
    /\ returned = <<>>
    /\ task_data = NoParse
    /\ history = <<>> /\ pool = <<>> /\ tasks = <<>>
    /\ timeout = TimeoutNone /\ max_retries = 1 /\ retry_delay = 1
    /\ InitCalls({})

\* what the operations on a Task leave alone
TaskFrame ==
    UNCHANGED <<analyzer_vars, text, json_data, objects, data, fields,
                returned, payload, task_data, history,
                   pool, tasks>>

\* task = Task(**payload)
Create ==
    /\ step = "input"
    /\ IF TaskAccepts(payload)
       THEN step' = "built" /\ task' = TaskOf(payload)
            /\ task_error' = NoException
       ELSE step' = "failed" /\ task' = task
            /\ task_error' = PydanticValidationError(0)
    /\ TaskFrame

\* validate_assignment=True: the value is validated as the one field
\* declares, whatever the other fields hold
FieldAccepts(field, value) ==
    CASE field = "description" -> value.t = "str"
      [] field \in {"objectives", "success_criteria"} ->
            IsListOfStr(value) /\ Len(value.l) >= 1
      [] field = "constraints" -> IsListOfStr(value)
      [] field \in {"data_to_extract", "actions_to_perform"} ->
            IsOptionalListOfStr(value)
      [] OTHER -> value.t = "dict"

\* an assignment that stores the value before it is validated
Assign_before_validation(field, value) ==
    /\ step = "built"
    /\ task' = [task EXCEPT ![field] = value]
    /\ task_error' = IF FieldAccepts(field, value) THEN NoException
                     ELSE PydanticValidationError(0)
    /\ UNCHANGED step
    /\ TaskFrame

\* task.<field> = value: a value that fails validation is not assigned
Assign(field, value) ==
    /\ step = "built"
    /\ IF FieldAccepts(field, value)
       THEN task' = [task EXCEPT ![field] = value] /\ task_error' = NoException
       ELSE task' = task /\ task_error' = PydanticValidationError(0)
    /\ UNCHANGED step
    /\ TaskFrame

\* task.<field>.pop(): the list object itself is changed
PopItem(field) ==
    /\ step = "built"
    /\ Len(task[field].l) > 0
    /\ task' = [task EXCEPT ![field] =
                   JList(SubSeq(task[field].l, 1, Len(task[field].l) - 1))]
    /\ task_error' = NoException
    /\ UNCHANGED step
    /\ TaskFrame

\* task.<field>.append(item)
AppendItem(field, item) ==
    /\ step = "built"
    /\ Len(task[field].l) < MaxItems
    /\ task' = [task EXCEPT ![field] = JList(Append(task[field].l, item))]
    /\ task_error' = NoException
    /\ UNCHANGED step
    /\ TaskFrame

\* return self.data_to_extract is not None and len(self.data_to_extract) > 0
has_data_extraction(self) ==
    self.data_to_extract # JNone /\ Len(self.data_to_extract.l) > 0

\* return self.actions_to_perform is not None and
\*        len(self.actions_to_perform) > 0
has_actions(self) ==
    self.actions_to_perform # JNone /\ Len(self.actions_to_perform.l) > 0

\* a query that takes a Task at a threshold for complex
is_complex_at_threshold(self) ==
    LET complexity_threshold_objectives == 2
        complexity_threshold_actions == 3
    IN  \/ Len(self.objectives.l) >= complexity_threshold_objectives
        \/ /\ has_actions(self)
           /\ self.actions_to_perform # JNone
           /\ Len(self.actions_to_perform.l) >= complexity_threshold_actions

is_complex(self) ==
    LET complexity_threshold_objectives == 2
        complexity_threshold_actions == 3
    IN  \/ Len(self.objectives.l) > complexity_threshold_objectives
        \/ /\ has_actions(self)
           /\ self.actions_to_perform # JNone
           /\ Len(self.actions_to_perform.l) > complexity_threshold_actions

\* the three queries are called on the Task: they read it and return
Query ==
    /\ step = "built"
    /\ returned' = [has_data_extraction |-> has_data_extraction(task),
                    has_actions |-> has_actions(task),
                    is_complex |-> is_complex(task)]
    /\ UNCHANGED <<analyzer_vars, step, text, json_data, objects, data,
                   fields, payload, task_data, task, task_error, history,
                   pool, tasks>>

NextTask ==
    \/ Create
    \/ Query
    \/ \E field \in ListFields, value \in AssignedValues : Assign(field, value)
    \/ \E field \in ListFields : PopItem(field)
    \/ \E field \in ListFields : AppendItem(field, JStr("More"))

SpecTask == InitTask /\ [][NextTask]_vars

\* assignments to every field of a Task, after construction and after an
\* objective was popped
NextAssign ==
    \/ Create
    \/ \E field \in TaskFields, value \in AssignedValues : Assign(field, value)
    \/ PopItem("objectives")

SpecAssign == InitTask /\ [][NextAssign]_vars

(***************************************************************************)
(* BrowserPool (examples/playwright_best_practices/browser_pool_manager.py)*)
(* used by several acquire_page calls and by its monitor, all coroutines   *)
(* of one event loop.  A coroutine runs alone from one suspension to the   *)
(* next; it is suspended by an await on the browser (launch, new_context,  *)
(* close), by asyncio.sleep and by an asyncio.Lock it cannot take at once. *)
(* The lock is taken at once only when it is free and nobody waits for it; *)
(* release() wakes the first waiter, which takes the lock when it runs.    *)
(* A browser id is its number: "browser-N" is N.  The statistics are left  *)
(* out; _browser_stats has the keys of _context_counts.  The idle time of  *)
(* a browser is not measured: the monitor may find any browser idle.       *)
(***************************************************************************)
\* task t runs on from the point `at` with the lock in hand, up to its next
\* suspension: the pool and the task after that.  idle: the browsers whose
\* idle time exceeds browser_idle_timeout.
Run(pl, t, at, idle) ==
    LET Released(q) == [q EXCEPT !._lock.locked = FALSE]
        Suspended(state, where, b) ==
            [pc |-> state, at |-> where, browser_id |-> b]
        mine == tasks[t].browser_id
        \* self._context_counts[browser_id] += 1, a KeyError when the
        \* browser is gone
        Increment(q, b) ==
            IF b \in DOMAIN q._context_counts
            THEN [pool |-> Released([q EXCEPT !._context_counts[b] = @ + 1]),
                  task |-> Suspended("opening", "", b)]
            ELSE [pool |-> Released(q), task |-> Suspended("failed", "", b)]
        \* back in acquire_page with (browser_id, browser): async with
        \* self._lock on the lock just released
        Counted(q, b) ==
            IF q._lock._waiters = <<>>
            THEN Increment([q EXCEPT !._lock.locked = TRUE], b)
            ELSE [pool |-> [q EXCEPT !._lock._waiters = Append(@, t)],
                  task |-> Suspended("waiting", "increment", b)]
        with_capacity ==
            { i \in 1..Len(pl._browsers) :
                pl._context_counts[pl._browsers[i]]
                    < pl.max_contexts_per_browser }
        first == CHOOSE i \in with_capacity : \A j \in with_capacity : i <= j
        browser_id == Len(pl._browsers)
        created ==
            [pl EXCEPT
               !._browsers =
                   IF \E i \in 1..Len(@) : @[i] = browser_id
                   THEN @ ELSE Append(@, browser_id),
               !._context_counts =
                   [b \in DOMAIN @ \cup {browser_id} |->
                       IF b = browser_id THEN 0 ELSE @[b]]]
        browsers_to_remove ==
            { b \in DOMAIN pl._context_counts :
                /\ ~(pl._context_counts[b] > 0)
                /\ ~(Len(pl._browsers) <= pl.min_browsers)
                /\ b \in idle }
    IN  CASE at = "get" ->
               IF with_capacity # {}
               THEN Counted(Released(pl), pl._browsers[first])
               ELSE IF Len(pl._browsers) < pl.max_browsers
               THEN [pool |-> pl, task |-> Suspended("launching", "", -1)]
               ELSE [pool |-> Released(pl),
                     task |-> Suspended("sleeping", "", -1)]
          [] at = "created" -> Counted(Released(created), browser_id)
          [] at = "increment" -> Increment(pl, mine)
          [] at = "stats" ->
               [pool |-> Released(pl),
                task |-> IF mine \in DOMAIN pl._context_counts
                         THEN Suspended("yielded", "", mine)
                         ELSE Suspended("failed", "", mine)]
          [] at = "release" ->
               IF mine \in DOMAIN pl._context_counts
               THEN [pool |-> Released([pl EXCEPT
                                          !._context_counts[mine] = @ - 1]),
                     task |-> Suspended("done", "", mine)]
               ELSE [pool |-> Released(pl),
                     task |-> Suspended("failed", "", mine)]
          [] at = "monitor" ->
               IF browsers_to_remove = {}
               THEN [pool |-> Released(pl),
                     task |-> Suspended("sleeping", "", -1)]
               ELSE [pool |-> [pl EXCEPT
                        !._browsers =
                            SelectSeq(@, LAMBDA b : b \notin browsers_to_remove),
                        !._context_counts =
                            [b \in DOMAIN @ \ browsers_to_remove |-> @[b]]],
                     task |-> Suspended("closing", "", -1)]
          [] OTHER ->
               [pool |-> Released(pl), task |-> Suspended("sleeping", "", -1)]

\* the step of task t that ends as `after` says
PoolStep(t, after) ==
    /\ pool' = after.pool
    /\ tasks' = [tasks EXCEPT ![t] = after.task]
    /\ UNCHANGED <<analyzer_vars, util_vars, history>>

\* async with self._lock: the task goes on at once when the lock is free
\* and nobody waits, and joins the waiters otherwise
Enter(t, at, idle) ==
    IF ~pool._lock.locked /\ pool._lock._waiters = <<>>
    THEN PoolStep(t, Run([pool EXCEPT !._lock.locked = TRUE], t, at, idle))
    ELSE PoolStep(t, [pool |-> [pool EXCEPT !._lock._waiters = Append(@, t)],
                      task |-> [tasks[t] EXCEPT !.pc = "waiting", !.at = at]])

\* the first waiter, woken by release(), takes the lock and goes on
Resume(t) ==
    /\ tasks[t].pc = "waiting"
    /\ ~pool._lock.locked
    /\ pool._lock._waiters # <<>> /\ Head(pool._lock._waiters) = t
    /\ \E idle \in IF t = "monitor" THEN SUBSET DOMAIN pool._context_counts
                                    ELSE {{}} :
          PoolStep(t, Run([pool EXCEPT !._lock.locked = TRUE,
                                       !._lock._waiters = Tail(@)],
                          t, tasks[t].at, idle))

\* acquire_page: result = await self._get_available_browser(), at the start
\* and after each asyncio.sleep(0.1)
Acquire(p) ==
    /\ tasks[p].pc \in {"idle", "sleeping"}
    /\ Enter(p, "get", {})

\* the await under the lock is over: _create_browser has launched the
\* browser, the monitor has closed the browsers it removed
Completes(t) ==
    /\ tasks[t].pc \in {"launching", "closing"}
    /\ PoolStep(t, Run(pool, t, IF tasks[t].pc = "launching" THEN "created"
                                ELSE "closed", {}))

\* the context and the page are created: pages_created is counted under
\* the lock and the page is yielded
Opened(p) ==
    /\ tasks[p].pc = "opening"
    /\ Enter(p, "stats", {})

\* the body of the with statement ends: the finally clause closes the page
\* and the context and takes the lock for the decrement
Leave(p) ==
    /\ tasks[p].pc = "yielded"
    /\ Enter(p, "release", {})

\* _monitor_browsers: asyncio.sleep(30) is over
MonitorWakes ==
    /\ tasks["monitor"].pc = "sleeping"
    /\ \E idle \in SUBSET DOMAIN pool._context_counts :
          Enter("monitor", "monitor", idle)

\* after start(): min_browsers browsers without a context, the monitor
\* asleep, three acquire_page calls not yet begun
InitPool ==
    /\ \E min_browsers \in {0, 1}, max_contexts_per_browser \in {1, 2} :
          pool = [min_browsers |-> min_browsers,
                  max_browsers |-> 2,
                  max_contexts_per_browser |-> max_contexts_per_browser,
                  _browsers |-> [i \in 1..min_browsers |-> i - 1],
                  _context_counts |-> [b \in 0..(min_browsers - 1) |-> 0],
                  _lock |-> [locked |-> FALSE, _waiters |-> <<>>]]
    /\ tasks = [t \in {"first", "second", "third", "monitor"} |->
                  [pc |-> IF t = "monitor" THEN "sleeping" ELSE "idle",
                   at |-> "", browser_id |-> -1]]
    /\ UtilsIdle
    /\ history = <<>>
    /\ timeout = TimeoutNone /\ max_retries = 1 /\ retry_delay = 1
    /\ InitCalls({})

NextPool ==
    \/ \E p \in DOMAIN tasks \ {"monitor"} :
          \/ Acquire(p)
          \/ Opened(p)
          \/ Leave(p)
    \/ \E t \in DOMAIN tasks :
          \/ Resume(t)
          \/ Completes(t)
    \/ MonitorWakes

SpecPool == InitPool /\ [][NextPool]_vars

(***************************************************************************)
(* Properties of analyze_task.                                             *)
(***************************************************************************)
\* the classes analyze_task documents as raised
TypedErrors ==
    {"InvalidResponseFormatError", "ValidationError",
     "ContextLengthExceededError", "LLMCommunicationError", "RateLimitError"}

\* the classes that are never retried
NonRetryableErrors ==
    {"InvalidResponseFormatError", "ValidationError",
     "ContextLengthExceededError"}

\* the most attempts a call makes
Budget == IF max_retries >= 1 THEN max_retries ELSE 1

\* the completion of attempt i raised a generic exception
GenericFailure(c, i) ==
    attempts[c][i].cause = "raise" /\ attempts[c][i].raw_type = "Exception"

\* every finished attempt of the call failed on a generic exception
AllGeneric(c) == \A i \in 1..Len(attempts[c]) : GenericFailure(c, i)

\* C1: a call that terminates without having been cancelled returns a Task
\* that satisfies the Task invariants or raises one error of the
\* TaskAnalysisError taxonomy.  The code lets a ValueError that is neither a
\* rate-limit nor a context-length error through, so this is violated.
C1_TypedOutcome ==
    \A c \in Calls :
        /\ pc[c] = "returned" =>
              TaskInvariant(result[c]) /\ raised[c] = NoException
        /\ (pc[c] = "raised" /\ ~cancelled[c]) =>
              raised[c].type \in TypedErrors /\ result[c] = NoTask

\* C2 as stated: an attempt that fails with a format, validation or
\* context-length error ends the call with that error and the completion has
\* been invoked exactly once.  Violated when retryable failures precede it.
C2_InvokedOnce ==
    \A c \in Calls : \A i \in 1..Len(attempts[c]) :
        attempts[c][i].error \in NonRetryableErrors =>
            /\ pc[c] = "raised"
            /\ raised[c] = outcome[c]
            /\ raised[c].type = attempts[c][i].error
            /\ call_count[c] = 1

\* C2 amended: such an attempt is the last of the call: the call ends with
\* that error and no completion is invoked after it, so the completion has
\* been invoked once when it is the first attempt and k times when it is the
\* k-th, for every max_retries.
C2_NeverRetried ==
    \A c \in Calls : \A i \in 1..Len(attempts[c]) :
        attempts[c][i].error \in NonRetryableErrors =>
            /\ pc[c] = "raised"
            /\ raised[c] = outcome[c]
            /\ raised[c].type = attempts[c][i].error
            /\ raised[c].at = i
            /\ i = Len(attempts[c])
            /\ call_count[c] = i
            /\ ~attempts[c][i].slept
            /\ \A j \in 1..(i - 1) : attempts[c][j].slept

C2_Witness ==
    \E c \in Calls :
        /\ max_retries = 3
        /\ pc[c] = "raised"
        /\ call_count[c] = 1
        /\ raised[c].type = "ValidationError"
        /\ attempts[c][1].cause = "return"

\* C3: when every attempt fails on a generic exception raised by the
\* completion and max_retries >= 1, the completion is invoked max_retries
\* times and the call raises an LLMCommunicationError whose retry_count is the
\* number of attempts and whose original_error is the exception of the last
\* attempt.
C3_BudgetExhausted ==
    \A c \in Calls :
        (pc[c] = "raised" /\ AllGeneric(c) /\ max_retries >= 1 /\ ~cancelled[c]) =>
            /\ call_count[c] = max_retries
            /\ Len(attempts[c]) = max_retries
            /\ raised[c].type = "LLMCommunicationError"
            /\ raised[c].retry_count = call_count[c]
            /\ raised[c].original_error.type = "Exception"
            /\ raised[c].original_error.at = call_count[c]

C3_Witness ==
    \E c \in Calls :
        /\ pc[c] = "raised"
        /\ AllGeneric(c)
        /\ max_retries = 3
        /\ call_count[c] = 3
        /\ raised[c].type = "LLMCommunicationError"

\* C4: a successful attempt is the last attempt of its call: the call returns
\* the Task built from that attempt's response, the k-1 attempts before it
\* were retryable failures followed by a wait, k is within the budget and the
\* completion has been invoked exactly k times.
C4_ReturnsAtFirstSuccess ==
    \A c \in Calls : \A k \in 1..Len(attempts[c]) :
        attempts[c][k].error = "None" =>
            /\ pc[c] = "returned"
            /\ k = Len(attempts[c])
            /\ k <= Budget
            /\ call_count[c] = k
            /\ attempts[c][k].cause = "return"
            /\ BodyError(response[c], k) = NoException
            /\ result[c] = BodyTask(response[c], k)
            /\ raised[c] = NoException
            /\ \A j \in 1..(k - 1) :
                  attempts[c][j].error # "None" /\ attempts[c][j].slept

C4_Witness ==
    \E c \in Calls :
        /\ pc[c] = "returned"
        /\ call_count[c] = 3
        /\ GenericFailure(c, 1)
        /\ GenericFailure(c, 2)
        /\ result[c] = TaskOf(MinimalPayload)

\* the message says that the request timed out
SaysTimedOut(e) == Contains(e.msg, <<"timed", "out">>)

\* the last finished attempt of the call, which must have one
LastAttempt(c) == attempts[c][Len(attempts[c])]

\* C5: with a timeout configured, a completion that does not finish in time
\* ends its attempt with an LLMCommunicationError saying the request timed
\* out; the attempt is retried while the budget lasts; with max_retries = 1
\* the error reaches the caller with retry_count = 1; the timed-out
\* completion has been cancelled.
C5_Timeout ==
    \A c \in Calls :
        /\ \A i \in 1..Len(attempts[c]) :
              attempts[c][i].cause = "timeout" =>
                  /\ TimeoutIsSet
                  /\ attempts[c][i].error = "LLMCommunicationError"
                  /\ attempts[c][i].slept <=> (i < max_retries)
        /\ (attempts[c] # <<>> /\ LastAttempt(c).cause = "timeout"
            /\ pc[c] # "awaiting") =>
              /\ outcome[c].type = "LLMCommunicationError"
              /\ SaysTimedOut(outcome[c])
              /\ outcome[c].original_error.type = "TimeoutError"
              /\ completion[c] = "cancelled"
              /\ (max_retries = 1 /\ pc[c] = "raised" /\ ~cancelled[c]) =>
                    /\ raised[c].type = "LLMCommunicationError"
                    /\ SaysTimedOut(raised[c])
                    /\ raised[c].retry_count = 1
                    /\ call_count[c] = 1

C5_Witness ==
    \E c \in Calls :
        /\ max_retries = 1
        /\ timeout = TimeoutOf(DEFAULT_TIMEOUT)
        /\ pc[c] = "raised"
        /\ LastAttempt(c).cause = "timeout"
        /\ raised[c].retry_count = 1
        /\ completion[c] = "cancelled"

\* the wait the backoff formula gives after the given attempt
Backoff(attempt, multiplier) ==
    Min(retry_delay * Pow2(attempt - 1) * multiplier, MAX_RETRY_DELAY)

\* C6: the wait after an attempt that failed on a rate-limit condition is
\* min(retry_delay * 2^(attempt-1) * 5, 60).  The code tests the exception
\* that left the attempt for being a ValueError, which a RateLimitError is
\* not, so the multiplier is never applied and this is violated.
C6_RateLimitWait ==
    \A c \in Calls : \A i \in 1..Len(attempts[c]) :
        (attempts[c][i].slept /\ attempts[c][i].error = "RateLimitError") =>
            attempts[c][i].wait = Backoff(i, RATE_LIMIT_RETRY_MULTIPLIER)

\* C7: the wait after the n-th attempt, failed on a generic retryable error,
\* is min(retry_delay * 2^(n-1), 60), and no wait exceeds 60 seconds.
C7_BackoffWait ==
    \A c \in Calls : \A n \in 1..Len(attempts[c]) :
        attempts[c][n].slept =>
            /\ attempts[c][n].wait <= MAX_RETRY_DELAY
            /\ attempts[c][n].error = "LLMCommunicationError" =>
                  attempts[c][n].wait = Backoff(n, 1)

C7_Witness ==
    \E c \in Calls :
        /\ retry_delay = 40
        /\ Len(attempts[c]) >= 2
        /\ GenericFailure(c, 1) /\ attempts[c][1].slept
        /\ attempts[c][1].wait = 40
        /\ GenericFailure(c, 2) /\ attempts[c][2].slept
        /\ attempts[c][2].wait = MAX_RETRY_DELAY

\* the waits of a call grow strictly until they reach the cap
StrictlyGrowing(c) ==
    \A i, j \in 1..Len(attempts[c]) :
        (i < j /\ attempts[c][i].slept /\ attempts[c][j].slept) =>
            \/ attempts[c][i].wait < attempts[c][j].wait
            \/ /\ attempts[c][i].wait = attempts[c][j].wait
               /\ attempts[c][i].wait = MAX_RETRY_DELAY

\* C8 as stated: in a call whose attempts keep failing on generic exceptions
\* the waits are strictly increasing, or equal once the cap is reached.
\* Violated for retry_delay = 0, where every wait is 0 and the cap is not
\* reached.
C8_Increasing == \A c \in Calls : AllGeneric(c) => StrictlyGrowing(c)

\* C8 amended: with a positive retry_delay the waits are strictly increasing,
\* or equal once the cap is reached; with retry_delay = 0 every wait is 0; in
\* both cases a later wait is never shorter than an earlier one.
C8_IncreasingIfPositive ==
    \A c \in Calls :
        AllGeneric(c) =>
            /\ retry_delay > 0 => StrictlyGrowing(c)
            /\ retry_delay = 0 =>
                  \A i \in 1..Len(attempts[c]) : attempts[c][i].wait = 0
            /\ retry_delay >= 0 =>
                  \A i, j \in 1..Len(attempts[c]) :
                      (i < j /\ attempts[c][i].slept /\ attempts[c][j].slept) =>
                          attempts[c][i].wait <= attempts[c][j].wait

C8_Witness ==
    \E c \in Calls :
        /\ retry_delay = 1
        /\ AllGeneric(c)
        /\ Len(attempts[c]) >= 2
        /\ attempts[c][1].slept /\ attempts[c][1].wait = 1
        /\ attempts[c][2].slept /\ attempts[c][2].wait = 2

\* the completion of attempt i raised an exception whose text holds a
\* rate-limit phrase
RateLimitText(c, i) == attempts[c][i].cause = "raise" /\ attempts[c][i].phrase

IllTypedOptionals(reply) ==
    LET found == extract_json_from_text(reply) IN
    IF ~found.found THEN {}
    ELSE { f \in {"data_to_extract", "actions_to_perform"} \cap DOMAIN found.data :
             /\ found.data[f] \notin {JNone, JStr("null"), JStr("None"),
                                       JList(<<>>)}
             /\ ~IsListOfStr(found.data[f]) }

\* C23: a call whose first response gives data_to_extract or
\* actions_to_perform a value that is not a list of strings ends with a
\* ValidationError for that field after one completion call.  A list with
\* an item that is not a string passes _validate_field_types, the Task
\* constructor refuses it with its own error, and that error is retried, so
\* this is violated.
C23_OptionalListRejected ==
    \A c \in Calls :
        (/\ Len(attempts[c]) = 1
         /\ attempts[c][1].cause = "return"
         /\ IllTypedOptionals(response[c]) # {}) =>
            /\ pc[c] = "raised"
            /\ raised[c].type = "ValidationError"
            /\ raised[c].field.name \in IllTypedOptionals(response[c])
            /\ call_count[c] = 1

\* C24: an attempt left by a plain ValueError (one that is neither turned
\* into a RateLimitError nor into a ContextLengthExceededError), the Task
\* constructor's error included, ends the call: the completion has been
\* invoked once.  The except clause re-raises it as not retryable, but
\* _is_retryable_error answers True for it, so this is violated.
C24_ValueErrorNotRetried ==
    \A c \in Calls :
        (/\ Len(attempts[c]) >= 1
         /\ attempts[c][1].error \in {"ValueError", "PydanticValidationError"}) =>
            /\ pc[c] = "raised"
            /\ Len(attempts[c]) = 1
            /\ call_count[c] = 1

\* the call has ended, with a Task or with an error
Terminated == pc["call"] \in {"returned", "raised"}

\* max(1, max_retries)
AttemptBudget == IF max_retries > 1 THEN max_retries ELSE 1

\* C26: with a positive timeout the call eventually ends, whatever the
\* completions do; the completion is never invoked more than
\* max(1, max_retries) times and has been invoked at least once when the
\* call ends, for every max_retries, 0 and negative values included.
C26_Terminates ==
    /\ <>Terminated
    /\ [](call_count["call"] <= AttemptBudget)
    /\ [](Terminated => call_count["call"] >= 1)

\* with max_retries = 0 a completion that never returned was given up and
\* the call has ended after this one attempt
C26_Witness ==
    /\ TimeoutIsSet
    /\ max_retries = 0
    /\ Terminated
    /\ call_count["call"] = 1
    /\ attempts["call"][1].cause = "timeout"

\* C27: for every timeout other than None, 0 included, an outstanding
\* completion can be given up by the timeout.  The code tests
\* "if self.timeout:", which 0 fails as None does, so with timeout = 0 the
\* completion is awaited without a bound and this is violated.
C27_BoundedUnlessNone ==
    \A c \in Calls :
        (pc[c] = "awaiting" /\ timeout.set) => ENABLED TimeoutExpires(c)

\* C28: an LLMCommunicationError or RateLimitError a call raises carries
\* the number of attempts made both as its retry_count attribute and as
\* details["retry_count"].  after_attempt updates the attribute only; the
\* details keep the 0 of the constructor, so this is violated.
C28_DetailsMatchAttribute ==
    \A c \in Calls :
        (/\ pc[c] = "raised"
         /\ raised[c].type \in {"LLMCommunicationError", "RateLimitError"}) =>
            /\ raised[c].details.retry_count = raised[c].retry_count
            /\ raised[c].retry_count = Len(attempts[c])

\* C18: the description of the Task a call returns is the task_description
\* argument of the call.  The argument only goes into the prompt; the Task
\* is built from the mapping parsed out of the response, description
\* included, so a response with another description violates this.
C18_DescriptionEchoed ==
    \A c \in Calls :
        pc[c] = "returned" =>
            result[c].description = JStr(task_description[c])

(***************************************************************************)
(* Properties of concurrent calls.                                         *)
(***************************************************************************)
\* a call that has made no attempt, as analyze_task starts it
Started ==
    [pc |-> "ready", attempt_number |-> 1, call_count |-> 0,
     outcome |-> NoException, raised |-> NoException, result |-> NoTask]

\* the call after one more attempt of a call running alone, given what the
\* completion of that attempt did; "impossible" when a lone call makes no
\* such attempt
AloneAttempt(st, input) ==
    LET at == st.attempt_number
        body_error ==
            CASE input.cause = "return" -> BodyError(input.reply, at)
              [] input.cause = "raise" ->
                    MkException(input.err.type, input.err.msg, at)
              [] OTHER -> MkException("TimeoutError", <<>>, at)
        o == AttemptOutcome(at, body_error)
    IN  IF st.pc \notin {"ready", "sleeping"}
           \/ (input.cause = "timeout" /\ ~TimeoutIsSet)
        THEN [st EXCEPT !.pc = "impossible"]
        ELSE [pc |-> o.next,
              attempt_number |-> IF o.next = "sleeping" THEN at + 1 ELSE at,
              call_count |-> st.call_count + 1,
              outcome |-> o.marked,
              raised |-> IF o.next = "raised" THEN o.raised ELSE st.raised,
              result |-> IF o.next = "returned"
                         THEN BodyTask(input.reply, at) ELSE st.result]

\* the call after the attempts of a call running alone whose completions do
\* what inputs[i], inputs[i+1], ... say
RECURSIVE RunAlone(_, _, _)
RunAlone(inputs, i, st) ==
    IF i > Len(inputs) THEN st
    ELSE RunAlone(inputs, i + 1, AloneAttempt(st, inputs[i]))

\* C11: each of two calls running side by side on one analyzer, in every
\* interleaving, is where a call running alone with the same completions
\* is: the same number of completion calls, the same attempt number, the
\* same last error and the same Task or error at the end; and a call that is
\* ready to attempt or whose wait is over can take its next step whatever
\* the other call is doing, in particular while the other one waits.
C11_Isolated ==
    \A c \in Calls :
        LET alone == RunAlone(history[c], 1, Started) IN
        /\ alone.pc # "impossible"
        /\ attempt_number[c] = alone.attempt_number
        /\ call_count[c] =
              alone.call_count + (IF pc[c] = "awaiting" THEN 1 ELSE 0)
        /\ outcome[c] = alone.outcome
        /\ raised[c] = alone.raised
        /\ result[c] = alone.result
        /\ pc[c] \in {"returned", "raised", "sleeping"} => pc[c] = alone.pc
        /\ pc[c] \in {"ready", "awaiting"} => alone.pc \in {"ready", "sleeping"}
        /\ pc[c] = "ready" => ENABLED Attempt(c)
        /\ pc[c] = "sleeping" => ENABLED Wake(c)

\* the first call waits after a failed attempt while the second, started
\* later, has already returned its Task; the first then ends on its own
\* second failure
C11_Witness ==
    /\ Calls = {"first", "second"}
    /\ max_retries = 2
    /\ pc["first"] = "raised" /\ call_count["first"] = 2
    /\ raised["first"].type = "LLMCommunicationError"
    /\ raised["first"].retry_count = 2
    /\ pc["second"] = "returned" /\ call_count["second"] = 1
    /\ result["second"] = TaskOf(MinimalPayload)

(***************************************************************************)
(* Properties of the body of an attempt.                                   *)
(***************************************************************************)
\* C12: round trip.  For a payload the Task constructor accepts (so with
\* non-empty objectives and success_criteria), written as JSON between any
\* prose, parsing raises nothing and the Task built from the parsed mapping
\* equals the Task built directly from the payload.  The extractor's pattern
\* follows braces one level deep only, so a payload whose context holds a
\* nested mapping is not found once prose surrounds it, and this is violated.
C12_RoundTrip ==
    (step \in {"parsed", "built"} /\ TaskAccepts(payload)) =>
        /\ task_data.error = NoException
        /\ step = "built" =>
              task_error = NoException /\ task = TaskOf(payload)

\* the two optional list fields of a Task
OptionalLists == {"data_to_extract", "actions_to_perform"}

\* the encodings of "no value" a response may give
AbsentEncodings == {JNone, JStr("null"), JStr("None"), JList(<<>>)}

\* C19: in every Task built from a response, data_to_extract and
\* actions_to_perform are each None or a non-empty list, and a field the
\* response omits or gives as null, "null", "None" or [] is None.
C19_AbsentOrNonEmpty ==
    (step = "built" /\ task_error = NoException) =>
        \A f \in OptionalLists :
            /\ \/ task[f] = JNone
               \/ task[f].t = "list" /\ Len(task[f].l) >= 1
            /\ (f \notin DOMAIN payload \/ payload[f] \in AbsentEncodings) =>
                  task[f] = JNone

\* the scenario of the specification: "data_to_extract": "null" and
\* "actions_to_perform": [] give a Task with both fields None
C19_Witness ==
    /\ step = "built" /\ task_error = NoException
    /\ OptionalLists \subseteq DOMAIN payload
    /\ payload["data_to_extract"] = JStr("null")
    /\ payload["actions_to_perform"] = JList(<<>>)
    /\ task["data_to_extract"] = JNone
    /\ task["actions_to_perform"] = JNone

\* the required fields the mapping lacks, in the order description,
\* objectives, success_criteria
Lacking(mapping) ==
    SelectSeq(<<"description", "objectives", "success_criteria">>,
              LAMBDA f : f \notin DOMAIN mapping)

\* C20: when the mapping the extractor found lacks required fields, parsing
\* raises a ValidationError whose message lists all of them, whose field is
\* the first of them, and the mapping is left as it was found (no default,
\* no normalisation).  The empty object lacks all three and is reported as
\* "No valid JSON object found" instead, so this is violated.
C20_MissingFields ==
    (step = "parsed" /\ json_data.found /\ Lacking(json_data.data) # <<>>) =>
        /\ task_data.error.type = "ValidationError"
        /\ task_data.error.msg =
              <<"Missing", "required", "fields">> \o Lacking(json_data.data)
        /\ task_data.error.field = Field(Lacking(json_data.data)[1])
        /\ task_data.data = json_data.data

\* the mapping found has every required field
HasRequired ==
    step = "parsed" /\ json_data.found /\ Lacking(json_data.data) = <<>>

\* objectives or success_criteria is an empty list
SomeEmptyList ==
    \/ json_data.data["objectives"] = JList(<<>>)
    \/ json_data.data["success_criteria"] = JList(<<>>)

\* description is not a string
DescriptionIsNoString == json_data.data["description"].t # "str"

\* C22 as stated: presence, then non-empty, then type.  A mapping with an
\* empty required list and a description that is not a string is reported
\* for the empty list.  The code checks the types before the items, so this
\* is violated.
C22_NonEmptyBeforeType ==
    (HasRequired /\ SomeEmptyList /\ DescriptionIsNoString) =>
        /\ task_data.error.type = "ValidationError"
        /\ task_data.error.field.name \in {"objectives", "success_criteria"}
        /\ task_data.error.msg[3] = "must" /\ task_data.error.msg[4] = "contain"

\* C22 amended: presence, then type, then non-empty.  With every required
\* field present, a description that is not a string is reported whatever
\* the lists hold; an empty objectives or success_criteria is reported, in
\* this order, only when description is a string and the optional lists
\* are lists or absent.
C22_TypeBeforeNonEmpty ==
    HasRequired =>
        LET d == json_data.data
            e == task_data.error
            optional_ok ==
                \A f \in OptionalLists :
                    f \in DOMAIN d =>
                        d[f] \in AbsentEncodings \/ d[f].t = "list"
        IN  /\ DescriptionIsNoString =>
                  /\ e.type = "ValidationError"
                  /\ e.field = Field("description")
                  /\ e.msg = <<"Field", "description", "must", "be", "a",
                               "string">>
            /\ (~DescriptionIsNoString /\ ~optional_ok) =>
                  /\ e.type = "ValidationError"
                  /\ e.field.name \in OptionalLists
                  /\ e.msg[4] = "be"
            /\ (~DescriptionIsNoString /\ optional_ok /\ SomeEmptyList) =>
                  /\ e.type = "ValidationError"
                  /\ e.msg[4] = "contain"
                  /\ e.field =
                        IF d["objectives"] = JList(<<>>)
                        THEN Field("objectives") ELSE Field("success_criteria")

\* both defects at once: the description is reported
C22_Witness ==
    /\ HasRequired /\ SomeEmptyList /\ DescriptionIsNoString
    /\ task_data.error.field = Field("description")

\* C25: parsing raises InvalidResponseFormatError exactly when the extractor
\* finds no object; a mapping it finds, the empty one included, goes on to
\* the required-field check, whose failure is a ValidationError.  The guard
\* is "if not data", which the empty dict also satisfies, so this is
\* violated.
C25_FormatErrorIffAbsent ==
    step = "parsed" =>
        /\ (task_data.error.type = "InvalidResponseFormatError")
               <=> ~json_data.found
        /\ (json_data.found /\ task_data.error # NoException) =>
               task_data.error.type = "ValidationError"

(***************************************************************************)
(* Properties of normalize_optional_fields.                                *)
(***************************************************************************)
\* the names in a field list
Named(names) == {names[i] : i \in 1..Len(names)}

\* what the normaliser is documented to make of a mapping, entry by entry
Normalized(mapping, names) ==
    [k \in DOMAIN mapping |->
        IF k \in Named(names) /\ IsNullEncoding(mapping[k])
        THEN JNone ELSE mapping[k]]

\* C13: normalisation is idempotent: the mapping returned by the second
\* application, made on what the first one returned, equals the mapping one
\* application makes of the mapping as it was given (payload).
C13_Idempotent ==
    step = "twice" =>
        objects[returned] = normalize_optional_fields(payload, fields)

C13_Witness ==
    /\ step = "twice"
    /\ fields = <<"actions_to_perform", "data_to_extract">>
    /\ DOMAIN payload = Named(NormalizeKeys)
    /\ payload["data_to_extract"] = JStr("null")
    /\ payload["actions_to_perform"] = JList(<<>>)
    /\ objects[returned]["data_to_extract"] = JNone
    /\ objects[returned]["actions_to_perform"] = JNone

\* C14: the normaliser changes only the entries of named fields that hold
\* None, "null", "None" or an empty list, each of which becomes None: the
\* keys are those given (a named field that is missing is not added), every
\* other entry keeps its value, a null encoding under a key that is not
\* named included, no other dict is created and the dict returned is the
\* one that was given.
C14_Frame ==
    step = "once" =>
        /\ returned = data
        /\ Len(objects) = 1
        /\ DOMAIN objects[data] = DOMAIN payload
        /\ \A k \in DOMAIN payload :
              /\ (k \in Named(fields) /\ IsNullEncoding(payload[k])) =>
                    objects[data][k] = JNone
              /\ k \notin Named(fields) => objects[data][k] = payload[k]
              /\ ~IsNullEncoding(payload[k]) => objects[data][k] = payload[k]

\* "constraints" holds an empty list and is not named, "notes" is named and
\* missing, "actions_to_perform" is named and holds "None"
C14_Witness ==
    /\ step = "once"
    /\ fields = <<"actions_to_perform", "notes">>
    /\ DOMAIN payload = Named(NormalizeKeys)
    /\ payload["actions_to_perform"] = JStr("None")
    /\ payload["constraints"] = JList(<<>>)
    /\ objects[returned]["constraints"] = JList(<<>>)
    /\ objects[returned]["actions_to_perform"] = JNone
    /\ "notes" \notin DOMAIN objects[returned]

(***************************************************************************)
(* Properties of extract_json_from_text.                                   *)
(***************************************************************************)
\* the text is, as a whole, a JSON array
IsArrayText == json_loads(text).ok /\ json_loads(text).val.t = "list"

\* C15: for a text that is a JSON array, whatever its items, the extractor
\* returns None.  Strategies 2 and 3 still search the text for braces, so an
\* array that holds an object yields that object, and this is violated.
C15_ArrayIsAbsent ==
    (step = "extracted" /\ IsArrayText) => json_data = NoJson

\* C16: for a text made of two different JSON objects, with or without
\* prose before, between and after them, the extractor returns the first
\* one, whatever the nesting of either.  The pattern of Strategy 2 follows
\* braces one level deep only: for a first object nested two levels deep it
\* matches an inner object instead, and this is violated.
C16_FirstObject ==
    (step = "extracted" /\ ~IsArrayText) => json_data = FoundJson(payload)

(***************************************************************************)
(* Properties of Task.                                                     *)
(***************************************************************************)
\* C17: a Task that exists holds at least one objective and at least one
\* success criterion, after construction and after every later change.
\* Construction and assignment are validated, but a change of the list
\* itself (pop, clear, del) is not, so this is violated.
C17_NeverEmpty ==
    step = "built" =>
        /\ Len(task.objectives.l) >= 1
        /\ Len(task.success_criteria.l) >= 1

\* the number of items of an optional list, -1 when the field is None
Count(value) == IF value = JNone THEN -1 ELSE Len(value.l)

\* C21: a call of the three queries leaves the Task as it was and returns
\* has_data_extraction true exactly when data_to_extract holds at least one
\* item, has_actions true exactly when actions_to_perform holds at least one
\* item, is_complex true exactly when there are more than 2 objectives or
\* more than 3 actions.
C21_Queries ==
    [][Query =>
        /\ task' = task
        /\ returned'.has_data_extraction = (Count(task.data_to_extract) >= 1)
        /\ returned'.has_actions = (Count(task.actions_to_perform) >= 1)
        /\ returned'.is_complex = (\/ Len(task.objectives.l) >= 3
                                   \/ Count(task.actions_to_perform) >= 4)]_vars

\* the queries have answered on a Task with two objectives and three
\* actions: it has actions and is not complex
C21_Witness ==
    /\ step = "built"
    /\ returned # <<>>
    /\ Len(task.objectives.l) = 2
    /\ Count(task.actions_to_perform) = 3
    /\ returned.has_actions /\ ~returned.has_data_extraction
    /\ ~returned.is_complex

\* C29: an assignment to a field of a Task either is refused, with a
\* validation error and every field as it was, or changes the assigned
\* field only.  It is refused when the value is not of the field's type and
\* when an empty list is assigned to objectives or success_criteria.
C29_Assignment ==
    [][\A field \in TaskFields, value \in AssignedValues :
         Assign(field, value) =>
            LET strings == value.t = "list"
                           /\ \A i \in 1..Len(value.l) : value.l[i].t = "str"
                refused ==
                    CASE field = "description" -> value.t # "str"
                      [] field = "objectives" -> ~strings \/ value.l = <<>>
                      [] field = "success_criteria" -> ~strings \/ value.l = <<>>
                      [] field = "constraints" -> ~strings
                      [] field = "data_to_extract" -> ~strings /\ value # JNone
                      [] field = "actions_to_perform" -> ~strings /\ value # JNone
                      [] field = "context" -> value.t # "dict"
            IN  IF refused
                THEN /\ task_error'.type = "PydanticValidationError"
                     /\ \A f \in TaskFields : task'[f] = task[f]
                ELSE /\ task_error' = NoException
                     /\ task'[field] = value
                     /\ \A f \in TaskFields \ {field} : task'[f] = task[f]]_vars

\* an assignment has been refused and the Task still holds the objectives,
\* the criteria and the description it was constructed with
C29_Witness ==
    /\ step = "built"
    /\ task_error.type = "PydanticValidationError"
    /\ task.objectives = payload["objectives"]
    /\ task.success_criteria = payload["success_criteria"]
    /\ task.description = payload["description"]

(***************************************************************************)
(* Properties of BrowserPool.                                              *)
(***************************************************************************)
\* C30: whatever the interleaving of the acquire_page calls and the
\* monitor, the count of every browser stays between 0 and
\* max_contexts_per_browser.  The capacity is tested under the lock in
\* _get_available_browser and the count raised under the lock later, in
\* acquire_page: calls that wait for the lock in between all pass the test
\* before any of them counts, so this is violated.
C30_CountsInRange ==
    pool # <<>> =>
        \A b \in DOMAIN pool._context_counts :
            /\ pool._context_counts[b] <= pool.max_contexts_per_browser
            /\ pool._context_counts[b] >= 0

\* C10: when the caller cancels the call while a completion is outstanding,
\* the attempt in progress is the last one and the call ends with the
\* cancellation.  tenacity records the CancelledError as the outcome of the
\* attempt and _is_retryable_error accepts it, so the call waits and retries
\* while the budget lasts, and this is violated.
C10_CancelStops ==
    \A c \in Calls : \A i \in 1..Len(attempts[c]) :
        attempts[c][i].cause = "cancel" =>
            /\ i = Len(attempts[c])
            /\ call_count[c] = i
            /\ pc[c] = "raised"
            /\ raised[c].type = "CancelledError"

====
